---- MODULE Spec2Model ----
(***************************************************************************)
(* Model of the data-access layer of the trade-data dashboard              *)
(* (src/src/database_manager.py): the three SQLite tables, the bulk        *)
(* insert-or-replace writers and the parameterised read queries.           *)
(*                                                                         *)
(* Values are Python values as the sqlite3 adapter stores them             *)
(* (None <-> NULL, int <-> INTEGER, float <-> REAL, str <-> TEXT).  Text   *)
(* is a sequence of one-character strings so that LIKE can be computed.    *)
(* REAL values are modelled by integers; created_at is the second of the   *)
(* clock at which the row was inserted.                                     *)
(*                                                                         *)
(* The second half models the extractor (src/src/data_extractor.py): the   *)
(* sliding-window rate limiter, the external request, the mapping of the   *)
(* response records to trade records, the sample-data fallback and the     *)
(* extraction loops.  Time is a count of seconds.                          *)
(***************************************************************************)
EXTENDS Integers, Sequences, FiniteSets

(***************************************************************************)
(* Bounds of the model.                                                    *)
(***************************************************************************)
MaxRows == 3
MaxBatch == 2
MaxRefBatch == 2
MaxLimit == 2
MaxData == 2                  \* records in the data list of a response
BulkSize == 50                \* records in the large responses of a loop
MaxSeeds == 2                 \* seeds of the random sample
MaxRuns == 1                  \* extraction loops in one behaviour
MaxTime == 90000              \* the clock stops at 25 hours
MaxExtractTime == 7200        \* no single extraction begins after the first hour
MaxDays == 45                 \* days that pass between calls of the store
MaxHistory == 3               \* GETs of the trailing hour kept in the history
max_requests_per_hour == 2    \* the ceiling the extractor is run with

(***************************************************************************)
(* Python values and truthiness.                                           *)
(***************************************************************************)
None == [type |-> "NoneType"]
PyInt(n) == [type |-> "int", val |-> n]
PyFloat(n) == [type |-> "float", val |-> n]
PyStr(s) == [type |-> "str", val |-> s]
PyList(s) == [type |-> "list", val |-> s]

IsNone(v) == v.type = "NoneType"

\* bool(v): None, 0, 0.0, '', [] and {} are falsy.
Truthy(v) ==
  CASE v.type = "NoneType" -> FALSE
    [] v.type \in {"int", "float"} -> v.val # 0
    [] v.type \in {"str", "list"} -> Len(v.val) > 0
    [] v.type = "dict" -> DOMAIN v.items # {}

(***************************************************************************)
(* Text constants.                                                         *)
(***************************************************************************)
Empty == PyStr(<< >>)
USA == PyStr(<<"U", "S", "A">>)
CHN == PyStr(<<"C", "H", "N">>)
NameUSA == PyStr(<<"U", "S", "A">>)
NameUS == PyStr(<<"U", ".", "S", ".">>)
NameChina == PyStr(<<"C", "h", "i", "n", "a">>)
Import == PyStr(<<"I", "m", "p", "o", "r", "t">>)
Export == PyStr(<<"E", "x", "p", "o", "r", "t">>)
KG == PyStr(<<"K", "G">>)
Hs84 == PyStr(<<"8", "4">>)
Hs8471 == PyStr(<<"8", "4", "7", "1">>)
Hs85 == PyStr(<<"8", "5">>)
HsTOTAL == PyStr(<<"T", "O", "T", "A", "L">>)

Americas == PyStr(<<"A", "m", "e", "r", "i", "c", "a", "s">>)
Asia == PyStr(<<"A", "s", "i", "a">>)
Various == PyStr(<<"V", "a", "r", "i", "o", "u", "s">>)
DescMachinery == PyStr(<<"M", "a", "c", "h", "i", "n", "e", "r", "y">>)
DescBoilers == PyStr(<<"B", "o", "i", "l", "e", "r", "s">>)

(***************************************************************************)
(* Trade records as insert_trade_data receives them: 12-tuples in the      *)
(* column order of the INSERT statement.                                   *)
(***************************************************************************)
TradeColumns ==
  <<"year", "month", "reporter_code", "reporter_name", "partner_code",
    "partner_name", "trade_flow", "hs_code", "hs_description", "trade_value",
    "quantity", "unit">>

Rec(year, rcode, rname, pcode, flow, hs, value) ==
  <<year, None, rcode, rname, pcode, Empty, flow, hs, Empty, value, None, KG>>

\* The records the model inserts: two reporters, a reporter with two
\* spellings of its name, an empty partner code, a null and a zero year,
\* null trade values, and hs codes 84 / 8471 / 185 / 85 / TOTAL.
TradeRecords ==
  { Rec(PyInt(2022), USA, NameUSA, CHN, Export, Hs84, PyFloat(100)),
    Rec(PyInt(2022), USA, NameUS, Empty, Export, Hs8471, None),
    Rec(PyInt(2023), CHN, NameChina, USA, Import,
        PyStr(<<"1", "8", "5">>), PyFloat(300)),
    Rec(PyInt(0), USA, NameUS, CHN, Export, HsTOTAL, PyFloat(100)),
    Rec(None, CHN, NameChina, USA, Export, Hs85, PyFloat(200)) }

\* A tuple with the wrong number of values: sqlite3 raises ProgrammingError
\* ("Incorrect number of bindings supplied") when it reaches it.
Malformed == <<PyInt(1), PyInt(2), PyInt(3)>>

(***************************************************************************)
(* Reference rows as insert_countries / insert_hs_codes receive them:      *)
(* 3-tuples (code, name, region) and (code, description, section).  Each   *)
(* set writes one code with two different descriptive texts, and one code  *)
(* that the extractor's own reference lists do not hold.                   *)
(***************************************************************************)
CountryColumns == <<"code", "name", "region">>
HsColumns == <<"code", "description", "section">>

CountryRecords ==
  { <<USA, PyStr(<<"U", "n", "i", "t", "e", "d", " ", "S", "t", "a", "t", "e", "s">>),
      Americas>>,
    <<USA, NameUS, Americas>>,
    <<CHN, NameChina, Asia>>,
    <<PyStr(<<"S", "U", "N">>), PyStr(<<"U", "S", "S", "R">>), Asia>> }

HsRecords ==
  { <<Hs84, DescMachinery, Various>>, <<Hs84, DescBoilers, Various>>,
    <<Hs85, PyStr(<<"E", "l", "e", "c", "t", "r", "i", "c", "a", "l">>), Various>>,
    <<Hs8471, DescMachinery, Various>> }

\* A reference tuple with a value missing.
MalformedRef == <<USA, NameUSA>>

Batches(S, n) == UNION { [1..k -> S] : k \in 0..n }

(***************************************************************************)
(* State.                                                                  *)
(***************************************************************************)
VARIABLES
  trade_data,   \* committed rows of table trade_data, in rowid order
  countries,    \* committed rows of table countries, in rowid order
  hs_codes,     \* committed rows of table hs_codes, in rowid order
  ret,          \* what the running call returned to its caller (Idle: none)
  inserted,     \* history: records in the batches insert_trade_data committed
  written,      \* history: per table and code, the latest committed write
  schema,       \* the tables and indexes of the database file
  store_ok,     \* environment: the database file can be opened and queried
  now,          \* environment: the clock, in seconds
  requests_made, \* ComtradeDataExtractor.requests_made: times of the recorded GETs
  loop,         \* the extraction loop in progress: its position and its locals
  issued,       \* history: times of the latest GETs the session has issued
  sqlite_sequence, \* the largest id AUTOINCREMENT has assigned in trade_data
  running       \* the call whose statements are committed one by one: its position

vars == <<trade_data, countries, hs_codes, ret, inserted, written,
          schema, store_ok, now, requests_made, loop, issued,
          sqlite_sequence, running>>

\* No extraction loop is running; runs counts the loops that have ended.
NoLoop(runs) == [op |-> "none", runs |-> runs]

Idle == [op |-> "idle"]

\* No call is between two of its statements.  While one is, the other
\* connections write and the environment changes; a query of another
\* connection changes nothing the call can read and is left out.
NoCall == [op |-> "none"]

(***************************************************************************)
(* The SQLite engine: statements inside one transaction.                   *)
(***************************************************************************)
\* The largest id of the rows in the table: rows are kept in rowid order
\* and the ids of new rows only grow, so it is the id of the last row.
MaxId(rows) == IF rows = << >> THEN 0 ELSE rows[Len(rows)].id

\* id INTEGER PRIMARY KEY AUTOINCREMENT: the largest id ever assigned is
\* the larger of the sqlite_sequence entry seq and the largest id in the
\* table; a new row gets the next one, so the id of a deleted row is never
\* assigned again.
AutoIncrement(rows, seq) == IF MaxId(rows) > seq THEN MaxId(rows) ELSE seq

\* Bind a 12-tuple to the columns of the INSERT statement.
BindTrade(rec) == [c \in {TradeColumns[i] : i \in 1..Len(TradeColumns)} |->
                     rec[CHOOSE i \in 1..Len(TradeColumns) : TradeColumns[i] = c]]

\* INSERT OR REPLACE INTO trade_data (12 columns): id is not supplied, so
\* AUTOINCREMENT assigns a fresh one and no uniqueness constraint can conflict.
InsertOrReplaceNaturalKey(rows, rec, seq, at) ==
  LET new == BindTrade(rec)
      keep == SelectSeq(rows, LAMBDA r :
                ~(/\ r.row.year = new.year
                  /\ r.row.reporter_code = new.reporter_code
                  /\ r.row.partner_code = new.partner_code
                  /\ r.row.trade_flow = new.trade_flow
                  /\ r.row.hs_code = new.hs_code))
  IN Append(keep, [id |-> AutoIncrement(rows, seq) + 1, row |-> new,
                   created_at |-> at])

\* created_at is not supplied either: DEFAULT CURRENT_TIMESTAMP stores the
\* time at of the statement.
InsertOrReplaceTrade(rows, rec, seq, at) ==
  Append(rows, [id |-> AutoIncrement(rows, seq) + 1, row |-> BindTrade(rec),
                created_at |-> at])

\* A record binds when it has one value per placeholder and every value
\* has a type the sqlite3 adapter binds (None, int, float, str); otherwise
\* sqlite3 raises.
Bindable(rec) ==
  /\ Len(rec) = Len(TradeColumns)
  /\ \A i \in 1..Len(rec) : rec[i].type \in {"NoneType", "int", "float", "str"}

\* cursor.executemany: one INSERT per record, in order, inside the open
\* transaction; stops at the first record that cannot be bound.  (The list
\* is walked by halves, the first half before the second.)
RECURSIVE ExecuteManyTrade(_, _, _, _)
ExecuteManyTrade(rows, data_list, seq, at) ==
  IF data_list = << >> THEN [rows |-> rows, error |-> FALSE]
  ELSE IF Len(data_list) = 1
       THEN IF Bindable(data_list[1])
            THEN [rows |-> InsertOrReplaceTrade(rows, data_list[1], seq, at),
                  error |-> FALSE]
            ELSE [rows |-> rows, error |-> TRUE]
       ELSE LET half == Len(data_list) \div 2
                first == ExecuteManyTrade(rows, SubSeq(data_list, 1, half),
                                          seq, at)
            IN IF first.error THEN first
               ELSE ExecuteManyTrade(first.rows,
                      SubSeq(data_list, half + 1, Len(data_list)), seq, at)

\* INSERT OR REPLACE INTO countries / hs_codes: code is the PRIMARY KEY, so
\* the row already holding the code is deleted and the new row is inserted.
InsertOrIgnoreRef(rows, rec) ==
  IF \E i \in 1..Len(rows) : rows[i][1] = rec[1] THEN rows ELSE Append(rows, rec)

InsertOrReplaceRef(rows, rec) ==
  Append(SelectSeq(rows, LAMBDA r : r[1] # rec[1]), rec)

RECURSIVE ExecuteManyRef(_, _, _)
ExecuteManyRef(rows, data_list, columns) ==
  IF data_list = << >> THEN [rows |-> rows, error |-> FALSE]
  ELSE IF Len(Head(data_list)) # Len(columns)
       THEN [rows |-> rows, error |-> TRUE]
       ELSE ExecuteManyRef(InsertOrReplaceRef(rows, Head(data_list)),
                           Tail(data_list), columns)

\* Leaving "with self.get_connection() as conn": commit when the block ended
\* normally, roll back to the committed rows when it raised.  The
\* sqlite_sequence entry is part of the transaction: the actions set it to
\* AutoIncrement of the rows this leaves.
ConnectionExitNoRollback(committed, txn) == txn.rows

ConnectionExit(committed, txn) ==
  IF txn.error THEN committed ELSE txn.rows

\* A statement on a table runs when the database can be opened and
\* queried and the file holds the table ("no such table" otherwise).
Usable(table) == store_ok /\ table \in schema.tables

\* Statements on a database that cannot be used raise sqlite3.Error.
Execute(txn, committed, table) ==
  IF Usable(table) THEN txn ELSE [rows |-> committed, error |-> TRUE]

(***************************************************************************)
(* Connections.  get_connection returns a new open connection; leaving     *)
(* "with conn:" ends the transaction and leaves the connection as it is;   *)
(* no operation calls close().                                             *)
(***************************************************************************)
Connect == [closed |-> FALSE, in_transaction |-> FALSE]

\* The first INSERT on a connection opens a transaction.
Begin(conn) == [conn EXCEPT !.in_transaction = TRUE]

ExitContext(conn) == [conn EXCEPT !.in_transaction = FALSE]

(***************************************************************************)
(* The schema: the CREATE statements of init_database, in order.           *)
(***************************************************************************)
DDL ==
  LET tables == <<"trade_data", "countries", "hs_codes">>
      indexes == <<"idx_year", "idx_reporter", "idx_partner", "idx_hs_code",
                   "idx_trade_flow">>
  IN [i \in 1..Len(tables) |-> [kind |-> "tables", name |-> tables[i]]]
     \o [i \in 1..Len(indexes) |-> [kind |-> "indexes", name |-> indexes[i]]]

\* CREATE TABLE / CREATE INDEX: an error when the name exists.
Create(txn, stmt) ==
  IF stmt.name \in txn.schema[stmt.kind]
  THEN [txn EXCEPT !.error = TRUE]
  ELSE [txn EXCEPT !.schema[stmt.kind] = @ \cup {stmt.name}]

\* CREATE TABLE IF NOT EXISTS / CREATE INDEX IF NOT EXISTS: nothing is done
\* when the name exists.
CreateIfNotExists(txn, stmt) ==
  IF stmt.name \in txn.schema[stmt.kind]
  THEN txn
  ELSE [txn EXCEPT !.schema[stmt.kind] = @ \cup {stmt.name}]

RECURSIVE ExecuteDDL(_, _)
ExecuteDDL(txn, stmts) ==
  IF stmts = << >> \/ txn.error THEN txn
  ELSE ExecuteDDL(CreateIfNotExists(txn, Head(stmts)), Tail(stmts))

\* DatabaseManager.__init__ has run init_database on a new file.
Init ==
  /\ trade_data = << >>
  /\ countries = << >>
  /\ hs_codes = << >>
  /\ ret = Idle
  /\ inserted = 0
  /\ written = [countries |-> {}, hs_codes |-> {}]
  /\ schema = ExecuteDDL([schema |-> [tables |-> {}, indexes |-> {}],
                          error |-> FALSE], DDL).schema
  /\ store_ok = TRUE
  /\ now = 0
  /\ requests_made = << >>
  /\ loop = NoLoop(0)
  /\ issued = << >>
  /\ sqlite_sequence = 0
  /\ running = NoCall

(***************************************************************************)
(* DatabaseManager.init_database                                           *)
(***************************************************************************)
\* One statement of init_database: cursor.execute of the CREATE at position
\* pc, on the schema as the file holds it now.  sqlite3 opens no transaction
\* for CREATE, so each statement is committed on its own and the ones
\* before it stay when it raises.
ExecuteCreate(pc) ==
  IF store_ok
  THEN CreateIfNotExists([schema |-> schema, error |-> FALSE], DDL[pc])
  ELSE [schema |-> schema, error |-> TRUE]

\* The next statement of init_database; the first one begins the call.
\* After the last CREATE, or when a statement raised (the error is logged
\* and raised again), the call ends.  Between two statements the store may
\* fail and other connections may read and write.
InitDatabase ==
  /\ ret = Idle
  /\ running.op \in {"none", "init_database"}
  /\ LET this == IF running = NoCall
                 THEN [op |-> "init_database", pc |-> 1,
                       before |-> [schema |-> schema]]
                 ELSE running
         txn == ExecuteCreate(this.pc)
     IN /\ schema' = txn.schema
        /\ IF txn.error \/ this.pc = Len(DDL)
           THEN /\ running' = NoCall
                /\ ret' = [op |-> "init_database", raised |-> txn.error,
                           before |-> this.before,
                           conn |-> ExitContext(Connect)]
           ELSE /\ running' = [this EXCEPT !.pc = @ + 1]
                /\ ret' = ret
  /\ UNCHANGED <<trade_data, countries, hs_codes, inserted, written,
                 store_ok, now, requests_made, loop, issued, sqlite_sequence>>

(***************************************************************************)
(* Environment: the database file becomes unusable (locked by another      *)
(* process, corrupt, not writable) and usable again; the file is deleted.  *)
(***************************************************************************)
StoreFails ==
  /\ ret = Idle
  /\ store_ok
  /\ store_ok' = FALSE
  /\ UNCHANGED <<trade_data, countries, hs_codes, ret, inserted, written,
                 schema, now, requests_made, loop, issued,
                 sqlite_sequence, running>>

StoreRecovers ==
  /\ ret = Idle
  /\ ~store_ok
  /\ store_ok' = TRUE
  /\ UNCHANGED <<trade_data, countries, hs_codes, ret, inserted, written,
                 schema, now, requests_made, loop, issued,
                 sqlite_sequence, running>>

\* The file is deleted while no connection is open: the next
\* sqlite3.connect creates an empty file, without a table, an index or a
\* sqlite_sequence entry, and nothing is raised.  The histories are those
\* of the file.
FileRemoved ==
  /\ ret = Idle
  /\ running = NoCall
  /\ schema.tables # {}
  /\ trade_data' = << >>
  /\ countries' = << >>
  /\ hs_codes' = << >>
  /\ schema' = [tables |-> {}, indexes |-> {}]
  /\ sqlite_sequence' = 0
  /\ inserted' = 0
  /\ written' = [countries |-> {}, hs_codes |-> {}]
  /\ UNCHANGED <<ret, store_ok, now, requests_made, loop, issued, running>>

(***************************************************************************)
(* DatabaseManager.insert_trade_data                                       *)
(***************************************************************************)
InsertTradeData ==
  /\ ret = Idle
  /\ \E data_list \in Batches(TradeRecords \cup {Malformed}, MaxBatch) :
       /\ Len(trade_data) + Len(data_list) <= MaxRows
       /\ LET txn == Execute(ExecuteManyTrade(trade_data, data_list,
                                               sqlite_sequence, now),
                              trade_data, "trade_data") IN
            /\ trade_data' = ConnectionExit(trade_data, txn)
            /\ sqlite_sequence' = AutoIncrement(trade_data', sqlite_sequence)
            /\ ret' = [op |-> "insert_trade_data", data_list |-> data_list,
                       before |-> trade_data,
                       raised |-> txn.error,
                       conn |-> ExitContext(Begin(Connect))]
            /\ inserted' = IF txn.error THEN inserted
                           ELSE inserted + Len(data_list)
  /\ UNCHANGED <<countries, hs_codes, written,
               schema, store_ok, now, requests_made, loop, issued, running>>

(***************************************************************************)
(* DatabaseManager.cleanup_old_data                                        *)
(***************************************************************************)
\* DELETE FROM trade_data WHERE created_at < datetime('now', '-N days').
\* datetime gives the time N days before the time at; a modifier that is
\* not a number of days (here: a negative N, which formats as '--N days')
\* makes it NULL, and a comparison with NULL holds for no row.
DeleteOlderThan(rows, at, days_old) ==
  LET limit == IF days_old < 0 THEN None ELSE PyInt(at - days_old * 86400) IN
    SelectSeq(rows, LAMBDA r : IsNone(limit) \/ ~(r.created_at < limit.val))

\* The DELETE and the commit; an error is logged and not raised, and the
\* method returns None either way.  The sqlite_sequence entry is left as
\* it is.
CleanupOldData ==
  /\ ret = Idle
  /\ \E days_old \in {-1, 0, 1, 30} :
       LET txn == Execute([rows |-> DeleteOlderThan(trade_data, now, days_old),
                           error |-> FALSE], trade_data, "trade_data") IN
         /\ trade_data' = ConnectionExit(trade_data, txn)
         /\ ret' = [op |-> "cleanup_old_data", days_old |-> days_old,
                    before |-> trade_data, raised |-> FALSE,
                    swallowed |-> txn.error,
                    conn |-> ExitContext(Begin(Connect))]
  /\ UNCHANGED <<countries, hs_codes, inserted, written, schema, store_ok, now,
                 requests_made, loop, issued, sqlite_sequence, running>>

\* Environment: days pass between two calls, a fortnight or a month at a
\* time.
DaysPass ==
  /\ ret = Idle
  /\ \E days \in {15, 30} :
       /\ now + days * 86400 <= MaxDays * 86400
       /\ now' = now + days * 86400
  /\ UNCHANGED <<trade_data, countries, hs_codes, ret, inserted, written,
                 schema, store_ok, requests_made, loop, issued,
                 sqlite_sequence, running>>

(***************************************************************************)
(* DatabaseManager.insert_countries / insert_hs_codes                      *)
(***************************************************************************)
\* History kept for the properties: after a committed batch, the latest tuple
\* written for each code.
LatestWrites(old, data_list) ==
  { rec \in old : \A i \in 1..Len(data_list) : data_list[i][1] # rec[1] }
  \cup { data_list[i] : i \in { k \in 1..Len(data_list) :
            \A j \in (k + 1)..Len(data_list) : data_list[j][1] # data_list[k][1] } }

InsertCountries ==
  /\ ret = Idle
  /\ \E countries_data \in Batches(CountryRecords \cup {MalformedRef}, MaxRefBatch) :
       LET txn == Execute(ExecuteManyRef(countries, countries_data, CountryColumns),
                          countries, "countries") IN
         /\ countries' = ConnectionExit(countries, txn)
         /\ ret' = [op |-> "insert_countries", data_list |-> countries_data,
                    before |-> countries, raised |-> txn.error,
                    conn |-> ExitContext(Begin(Connect))]
         /\ written' = IF txn.error THEN written
                       ELSE [written EXCEPT !.countries =
                               LatestWrites(@, countries_data)]
  /\ UNCHANGED <<trade_data, hs_codes, inserted,
               schema, store_ok, now, requests_made, loop, issued,
               sqlite_sequence, running>>

InsertHsCodes ==
  /\ ret = Idle
  /\ \E hs_codes_data \in Batches(HsRecords \cup {MalformedRef}, MaxRefBatch) :
       LET txn == Execute(ExecuteManyRef(hs_codes, hs_codes_data, HsColumns),
                          hs_codes, "hs_codes") IN
         /\ hs_codes' = ConnectionExit(hs_codes, txn)
         /\ ret' = [op |-> "insert_hs_codes", data_list |-> hs_codes_data,
                    before |-> hs_codes, raised |-> txn.error,
                    conn |-> ExitContext(Begin(Connect))]
         /\ written' = IF txn.error THEN written
                       ELSE [written EXCEPT !.hs_codes =
                               LatestWrites(@, hs_codes_data)]
  /\ UNCHANGED <<trade_data, countries, inserted,
               schema, store_ok, now, requests_made, loop, issued,
               sqlite_sequence, running>>

(***************************************************************************)
(* DatabaseManager.get_trade_data: building the query.                     *)
(* The query text is a sequence of strings (their concatenation is the     *)
(* text sent to the engine); params is the list of bound values.           *)
(***************************************************************************)
SelectTradeData ==
  "SELECT year, month, reporter_code, reporter_name, partner_code, partner_name, trade_flow, hs_code, hs_description, trade_value, quantity, unit FROM trade_data WHERE 1=1"
AndYear == " AND year = ?"
AndReporter == " AND reporter_code = ?"
AndPartner == " AND partner_code = ?"
AndFlow == " AND trade_flow = ?"
AndHsCode == " AND hs_code LIKE ?"
OrderBy == " ORDER BY year DESC, trade_value DESC"

FilterKeys == <<"year", "reporter_code", "partner_code", "trade_flow", "hs_code">>

\* filters is None or a dict; items maps the keys the dict holds to values.
PyDict(items) == [type |-> "dict", items |-> items]

\* "if filters:" and "'key' in filters and filters['key']"
Supplied(filters, key) ==
  /\ ~IsNone(filters) /\ DOMAIN filters.items # {}
  /\ key \in DOMAIN filters.items /\ Truthy(filters.items[key])

\* f"{filters['hs_code']}%"
PrefixPattern(v) == PyStr(v.val \o <<"%">>)

Clause(filters, key, text, param) ==
  IF Supplied(filters, key) THEN [query |-> <<text>>, params |-> <<param>>]
  ELSE [query |-> << >>, params |-> << >>]

ValueOf(filters, key) ==
  IF Supplied(filters, key) THEN filters.items[key] ELSE None

BuildQueryInline(filters) ==
  LET y == Clause(filters, "year", AndYear, ValueOf(filters, "year"))
      r == Clause(filters, "reporter_code", AndReporter, ValueOf(filters, "reporter_code"))
      p == Clause(filters, "partner_code", AndPartner, ValueOf(filters, "partner_code"))
      f == Clause(filters, "trade_flow", AndFlow, ValueOf(filters, "trade_flow"))
      h == IF Supplied(filters, "hs_code")
           THEN [query |-> <<" AND hs_code LIKE '">> \o filters.items["hs_code"].val
                           \o <<"%'">>,
                 params |-> << >>]
           ELSE [query |-> << >>, params |-> << >>]
  IN [query |-> <<SelectTradeData>> \o y.query \o r.query \o p.query \o f.query
                  \o h.query \o <<OrderBy>>,
      params |-> y.params \o r.params \o p.params \o f.params \o h.params]

BuildQuery(filters) ==
  LET y == Clause(filters, "year", AndYear, ValueOf(filters, "year"))
      r == Clause(filters, "reporter_code", AndReporter, ValueOf(filters, "reporter_code"))
      p == Clause(filters, "partner_code", AndPartner, ValueOf(filters, "partner_code"))
      f == Clause(filters, "trade_flow", AndFlow, ValueOf(filters, "trade_flow"))
      h == Clause(filters, "hs_code", AndHsCode,
                  IF Supplied(filters, "hs_code")
                  THEN PrefixPattern(filters.items["hs_code"]) ELSE None)
  IN [query |-> <<SelectTradeData>> \o y.query \o r.query \o p.query \o f.query
                  \o h.query \o <<OrderBy>>,
      params |-> y.params \o r.params \o p.params \o f.params \o h.params]

(***************************************************************************)
(* The SQLite engine: evaluating a SELECT.                                 *)
(***************************************************************************)
UpperCase == <<"A", "B", "C", "D", "E", "F", "G", "H", "I", "J", "K", "L", "M",
               "N", "O", "P", "Q", "R", "S", "T", "U", "V", "W", "X", "Y", "Z">>
LowerCase == <<"a", "b", "c", "d", "e", "f", "g", "h", "i", "j", "k", "l", "m",
               "n", "o", "p", "q", "r", "s", "t", "u", "v", "w", "x", "y", "z">>

Lower(c) ==
  IF \E i \in 1..Len(UpperCase) : UpperCase[i] = c
  THEN LowerCase[CHOOSE i \in 1..Len(UpperCase) : UpperCase[i] = c]
  ELSE c

\* x LIKE pattern on text: % matches any run of characters, _ any one
\* character, any other character itself, ASCII letters without case.
RECURSIVE LikeMatch(_, _)
LikeMatch(pat, s) ==
  IF pat = << >> THEN s = << >>
  ELSE IF Head(pat) = "%"
       THEN LikeMatch(Tail(pat), s) \/ (s # << >> /\ LikeMatch(pat, Tail(s)))
       ELSE /\ s # << >>
            /\ (Head(pat) = "_" \/ Lower(Head(pat)) = Lower(Head(s)))
            /\ LikeMatch(Tail(pat), Tail(s))

\* Comparisons with NULL are NULL, which WHERE treats as false.
SqlEq(a, b) == ~IsNone(a) /\ ~IsNone(b) /\ a.val = b.val

SqlLike(a, pattern) ==
  ~IsNone(a) /\ ~IsNone(pattern) /\ LikeMatch(pattern.val, a.val)

\* The WHERE terms the engine knows, each with one placeholder.
ClauseHolds(text, param, row) ==
  CASE text = AndYear -> SqlEq(row.year, param)
    [] text = AndReporter -> SqlEq(row.reporter_code, param)
    [] text = AndPartner -> SqlEq(row.partner_code, param)
    [] text = AndFlow -> SqlEq(row.trade_flow, param)
    [] text = AndHsCode -> SqlLike(row.hs_code, param)
    [] OTHER -> FALSE

KnownClauses == {AndYear, AndReporter, AndPartner, AndFlow, AndHsCode}

\* The statement is well formed when it is the SELECT, known terms with a
\* parameter each, and the ORDER BY; anything else is an engine error.
WellFormed(query, params) ==
  /\ Len(query) >= 2
  /\ query[1] = SelectTradeData
  /\ query[Len(query)] = OrderBy
  /\ \A i \in 2..(Len(query) - 1) : query[i] \in KnownClauses
  /\ Len(params) = Len(query) - 2

RowMatches(query, params, row) ==
  \A i \in 2..(Len(query) - 1) : ClauseHolds(query[i], params[i - 1], row)

\* Ordering of numbers in ORDER BY: NULL sorts below every value.
SqlCompare(a, b) ==
  IF IsNone(a) THEN (IF IsNone(b) THEN 0 ELSE 0 - 1)
  ELSE IF IsNone(b) THEN 1
  ELSE IF a.val < b.val THEN 0 - 1 ELSE IF a.val > b.val THEN 1 ELSE 0

\* ORDER BY year DESC, trade_value DESC: row a must come before row b.
StrictlyBeforeAscValue(a, b) ==
  \/ SqlCompare(a.year, b.year) = 1
  \/ SqlCompare(a.year, b.year) = 0 /\ SqlCompare(a.trade_value, b.trade_value) = 0 - 1

StrictlyBefore(a, b) ==
  \/ SqlCompare(a.year, b.year) = 1
  \/ SqlCompare(a.year, b.year) = 0 /\ SqlCompare(a.trade_value, b.trade_value) = 1

Permutations(n) ==
  { p \in [1..n -> 1..n] : \A i, j \in 1..n : p[i] = p[j] => i = j }

\* Every order of the rows the ORDER BY allows (the order of ties is the
\* engine's choice).
OrderedResults(rows) ==
  { [i \in 1..Len(rows) |-> rows[p[i]]] :
      p \in { q \in Permutations(Len(rows)) :
                \A i, j \in 1..Len(rows) :
                  i < j => ~StrictlyBefore(rows[q[j]], rows[q[i]]) } }

Project(rows) == [i \in 1..Len(rows) |-> rows[i].row]

\* The result sets the engine may return for the statement.
ExecuteSelect(query, params, table) ==
  OrderedResults(SelectSeq(Project(table),
                           LAMBDA row : RowMatches(query, params, row)))

\* A result set without rows.
EmptyResultSet == [columns |-> TradeColumns, rows |-> << >>]

\* pd.DataFrame() of the except branch has no columns; a result set always
\* carries the selected columns.
EmptyDataFrame == [columns |-> << >>, rows |-> << >>]

(***************************************************************************)
(* DatabaseManager.get_trade_data                                          *)
(***************************************************************************)
FilterValues(key) ==
  CASE key = "year" -> {None, PyInt(0), PyInt(2022), PyInt(2023)}
    [] key = "reporter_code" -> {USA, CHN}
    [] key = "partner_code" -> {Empty, CHN}
    [] key = "trade_flow" -> {Export, Import}
    [] key = "hs_code" -> {Empty, Hs84, PyStr(<<"8", "_">>),
                           PyStr(<<"%", "8", "5">>),
                           PyStr(<<"t", "o", "t", "a", "l">>)}

\* The filters the model calls get_trade_data with: None, {} and every
\* dict over the recognised keys.
Filters ==
  LET all == UNION { FilterValues(FilterKeys[i]) : i \in 1..Len(FilterKeys) } IN
    {None} \cup
    UNION { { PyDict(f) : f \in { g \in [S -> all] :
                                     \A k \in S : g[k] \in FilterValues(k) } } :
            S \in SUBSET { FilterKeys[i] : i \in 1..Len(FilterKeys) } }

GetTradeData ==
  /\ ret = Idle
  /\ running = NoCall
  /\ \E filters \in Filters :
       LET q == BuildQuery(filters) IN
         IF Usable("trade_data") /\ WellFormed(q.query, q.params)
         THEN \E rows \in ExecuteSelect(q.query, q.params, trade_data) :
                ret' = [op |-> "get_trade_data", filters |-> filters,
                        query |-> q.query, params |-> q.params,
                        df |-> [columns |-> TradeColumns, rows |-> rows],
                        conn |-> ExitContext(Connect)]
         ELSE ret' = [op |-> "get_trade_data", filters |-> filters,
                      query |-> q.query, params |-> q.params,
                      df |-> EmptyDataFrame,
                      conn |-> ExitContext(Connect)]
  /\ UNCHANGED <<trade_data, countries, hs_codes, inserted, written,
               schema, store_ok, now, requests_made, loop, issued,
               sqlite_sequence, running>>

(***************************************************************************)
(* DatabaseManager.get_summary_stats                                       *)
(***************************************************************************)
RECURSIVE SumOf(_, _)
\* SUM(column) over the rows, NULLs skipped; None when there is no value.
SumOf(rows, column) ==
  IF rows = << >> THEN None
  ELSE LET rest == SumOf(Tail(rows), column)
           v == Head(rows)[column]
       IN IF IsNone(v) THEN rest
          ELSE IF IsNone(rest) THEN PyFloat(v.val)
          ELSE PyFloat(v.val + rest.val)

NonNull(rows, column) ==
  { rows[i][column] : i \in { k \in 1..Len(rows) : ~IsNone(rows[k][column]) } }

\* MIN(column) / MAX(column): NULLs skipped; None when there is no value.
SqlMin(rows, column) ==
  IF NonNull(rows, column) = {} THEN None
  ELSE CHOOSE v \in NonNull(rows, column) :
         \A w \in NonNull(rows, column) : v.val <= w.val

SqlMax(rows, column) ==
  IF NonNull(rows, column) = {} THEN None
  ELSE CHOOSE v \in NonNull(rows, column) :
         \A w \in NonNull(rows, column) : v.val >= w.val

\* COUNT(*)
CountValueRows(rows) ==
  Len(SelectSeq(rows, LAMBDA r : ~IsNone(r.trade_value)))

CountRows(rows) == Len(rows)

\* COUNT(DISTINCT column)
CountDistinct(rows, column) == Cardinality(NonNull(rows, column))

Digit(d) == <<"0", "1", "2", "3", "4", "5", "6", "7", "8", "9">>[d + 1]

RECURSIVE FormatInt(_)
\* str(n) of a non-negative int.
FormatInt(n) ==
  IF n < 10 THEN <<Digit(n)>> ELSE FormatInt(n \div 10) \o <<Digit(n % 10)>>

\* f"{value}" of None or of an int
Format(v) ==
  IF IsNone(v) THEN <<"N", "o", "n", "e">> ELSE FormatInt(v.val)

NoData == PyStr(<<"N", "o", " ", "d", "a", "t", "a">>)

\* f"{min_year}-{max_year}" if min_year else "No data"
YearRange(min_year, max_year) ==
  IF Truthy(min_year)
  THEN PyStr(Format(min_year) \o <<"-">> \o Format(max_year))
  ELSE NoData

\* SELECT SUM(trade_value) ... WHERE trade_value IS NOT NULL, then
\* "total_value if total_value else 0"
TotalTradeValue(rows) ==
  LET total_value ==
        SumOf(SelectSeq(rows, LAMBDA r : ~IsNone(r.trade_value)), "trade_value")
  IN IF Truthy(total_value) THEN total_value.val ELSE 0

\* The dictionary the five statements give on the same rows.
SummaryStats(rows) ==
  [total_records |-> CountRows(rows),
   year_range |-> YearRange(SqlMin(rows, "year"), SqlMax(rows, "year")),
   unique_reporters |-> CountDistinct(rows, "reporter_code"),
   unique_partners |-> CountDistinct(rows, "partner_code"),
   total_trade_value |-> TotalTradeValue(rows)]

\* The next SELECT of get_summary_stats; the first one begins the call.
\* No transaction is open, so each statement reads the rows committed when
\* it runs, and another connection may commit between two of them.  seen
\* keeps, for the properties, the rows each statement read.  A statement
\* that raises ends the call with the {} of the except branch.
GetSummaryStats ==
  /\ ret = Idle
  /\ running.op \in {"none", "get_summary_stats"}
  /\ LET this == IF running = NoCall
                 THEN [op |-> "get_summary_stats", pc |-> 1, stats |-> << >>,
                       seen |-> << >>]
                 ELSE running
         \* the keys, in the order of the five SELECT statements
         keys == <<"total_records", "year_range", "unique_reporters",
                   "unique_partners", "total_trade_value">>
         key == keys[this.pc]
         stats == [k \in DOMAIN this.stats \cup {key} |->
                     IF k = key THEN SummaryStats(Project(trade_data))[key]
                     ELSE this.stats[k]]
         seen == Append(this.seen, trade_data)
     IN IF ~Usable("trade_data")
        THEN /\ running' = NoCall
             /\ ret' = [op |-> "get_summary_stats", stats |-> << >>,
                        seen |-> this.seen, conn |-> ExitContext(Connect)]
        ELSE IF this.pc = Len(keys)
        THEN /\ running' = NoCall
             /\ ret' = [op |-> "get_summary_stats", stats |-> stats,
                        seen |-> seen, conn |-> ExitContext(Connect)]
        ELSE /\ running' = [this EXCEPT !.pc = @ + 1, !.stats = stats,
                                        !.seen = seen]
             /\ ret' = ret
  /\ UNCHANGED <<trade_data, countries, hs_codes, inserted, written,
               schema, store_ok, now, requests_made, loop, issued,
               sqlite_sequence>>

(***************************************************************************)
(* DatabaseManager.get_top_traders                                         *)
(***************************************************************************)
TopTraderColumns == <<"reporter_name", "total_value", "record_count">>

\* WHERE trade_flow = ? AND trade_value IS NOT NULL
TopTraderRows(rows, trade_flow) ==
  SelectSeq(rows, LAMBDA r : SqlEq(r.trade_flow, trade_flow) /\ ~IsNone(r.trade_value))

\* GROUP BY reporter_code, reporter_name with SUM(trade_value), COUNT(*):
\* one group per (reporter_code, reporter_name) pair.  The group keeps its
\* reporter_code, which the SELECT list leaves out, so that two groups with
\* the same name, sum and count remain two groups.
TopTraderGroups(rows) ==
  { LET members == SelectSeq(rows, LAMBDA r :
                     <<r.reporter_code, r.reporter_name>> = key)
    IN [reporter_code |-> key[1],
        reporter_name |-> key[2],
        total_value |-> SumOf(members, "trade_value"),
        record_count |-> Len(members)] :
    key \in { <<rows[i].reporter_code, rows[i].reporter_name>> : i \in 1..Len(rows) } }

\* ORDER BY total_value DESC: every order of the groups it allows.
OrderedGroups(groups) ==
  { s \in [1..Cardinality(groups) -> groups] :
      /\ \A i, j \in 1..Cardinality(groups) : s[i] = s[j] => i = j
      /\ \A i, j \in 1..Cardinality(groups) :
           i < j => s[i].total_value.val >= s[j].total_value.val }

\* LIMIT ? with a non-negative count.
LimitOffByOne(s, limit) ==
  IF Len(s) <= limit + 1 THEN s ELSE SubSeq(s, 1, limit + 1)

Limit(s, limit) ==
  IF Len(s) <= limit THEN s ELSE SubSeq(s, 1, limit)

GetTopTraders ==
  /\ ret = Idle
  /\ running = NoCall
  /\ \E trade_flow \in {Import, Export}, limit \in 0..MaxLimit :
       IF Usable("trade_data")
       THEN \E ordered \in OrderedGroups(TopTraderGroups(
                              TopTraderRows(Project(trade_data), trade_flow))) :
              ret' = [op |-> "get_top_traders", trade_flow |-> trade_flow,
                      limit |-> limit,
                      \* SELECT reporter_name, SUM(...), COUNT(*): one
                      \* result row per group, without the reporter_code
                      df |-> [columns |-> TopTraderColumns,
                              rows |-> LET top == Limit(ordered, limit) IN
                                [i \in 1..Len(top) |->
                                   [c \in {"reporter_name", "total_value",
                                            "record_count"} |-> top[i][c]]]],
                      conn |-> ExitContext(Connect)]
       ELSE ret' = [op |-> "get_top_traders", trade_flow |-> trade_flow,
                    limit |-> limit, df |-> EmptyDataFrame,
                    conn |-> ExitContext(Connect)]
  /\ UNCHANGED <<trade_data, countries, hs_codes, inserted, written,
               schema, store_ok, now, requests_made, loop, issued,
               sqlite_sequence, running>>

(***************************************************************************)
(* DatabaseManager.get_trade_trends                                        *)
(***************************************************************************)
TrendColumns == <<"year", "trade_flow", "total_value">>

\* WHERE trade_value IS NOT NULL, whatever country_code is.
TrendRowsAllReporters(rows, country_code) ==
  SelectSeq(rows, LAMBDA r : ~IsNone(r.trade_value))

\* "if country_code:" WHERE reporter_code = ? AND trade_value IS NOT NULL,
\* else WHERE trade_value IS NOT NULL.
TrendRows(rows, country_code) ==
  IF Truthy(country_code)
  THEN SelectSeq(rows, LAMBDA r :
         SqlEq(r.reporter_code, country_code) /\ ~IsNone(r.trade_value))
  ELSE SelectSeq(rows, LAMBDA r : ~IsNone(r.trade_value))

\* GROUP BY year, trade_flow with SUM(trade_value)
TrendGroups(rows) ==
  { [year |-> key[1], trade_flow |-> key[2],
     total_value |-> SumOf(SelectSeq(rows, LAMBDA r :
                             <<r.year, r.trade_flow>> = key), "trade_value")] :
    key \in { <<rows[i].year, rows[i].trade_flow>> : i \in 1..Len(rows) } }

\* ORDER BY year: every order of the groups it allows, NULL years first.
OrderedTrends(groups) ==
  { s \in [1..Cardinality(groups) -> groups] :
      /\ \A i, j \in 1..Cardinality(groups) : s[i] = s[j] => i = j
      /\ \A i, j \in 1..Cardinality(groups) :
           i < j => SqlCompare(s[i].year, s[j].year) <= 0 }

GetTradeTrends ==
  /\ ret = Idle
  /\ running = NoCall
  \* country_code: none, '', two reporters of the table, one not in it
  /\ \E country_code \in {None, Empty, USA, CHN, PyStr(<<"D", "E", "U">>)} :
       IF Usable("trade_data")
       THEN \E ordered \in OrderedTrends(TrendGroups(
                              TrendRows(Project(trade_data), country_code))) :
              ret' = [op |-> "get_trade_trends", country_code |-> country_code,
                      df |-> [columns |-> TrendColumns, rows |-> ordered],
                      conn |-> ExitContext(Connect)]
       ELSE ret' = [op |-> "get_trade_trends", country_code |-> country_code,
                    df |-> EmptyDataFrame, conn |-> ExitContext(Connect)]
  /\ UNCHANGED <<trade_data, countries, hs_codes, inserted, written,
                 schema, store_ok, now, requests_made, loop, issued,
                 sqlite_sequence, running>>

(***************************************************************************)
(* DatabaseManager.get_countries / get_hs_codes                            *)
(***************************************************************************)
\* The place of a character among the characters of the model's texts in
\* the order of their byte values.
Ord(c) ==
  LET ascii ==
        <<" ", "%", ".", "0", "1", "2", "3", "4", "5", "6", "7", "8", "9">>
        \o UpperCase \o <<"_">> \o LowerCase
  IN CHOOSE i \in 1..Len(ascii) : ascii[i] = c

\* a < b in the BINARY collation: byte by byte, a proper prefix first.
RECURSIVE TextLess(_, _)
TextLess(a, b) ==
  IF b = << >> THEN FALSE
  ELSE IF a = << >> THEN TRUE
  ELSE IF Head(a) = Head(b) THEN TextLess(Tail(a), Tail(b))
  ELSE Ord(Head(a)) < Ord(Head(b))

\* Every order of the reference rows that ORDER BY column i allows; NULL
\* sorts below every text.
OrderedByText(rows, i) ==
  LET TextBefore(a, b) ==
        IF IsNone(b) THEN FALSE
        ELSE IF IsNone(a) THEN TRUE
        ELSE TextLess(a.val, b.val)
  IN { [k \in 1..Len(rows) |-> rows[p[k]]] :
         p \in { q \in Permutations(Len(rows)) :
                   \A k, l \in 1..Len(rows) :
                     k < l => ~TextBefore(rows[q[l]][i], rows[q[k]][i]) } }

\* SELECT * FROM countries ORDER BY name
GetCountries ==
  /\ ret = Idle
  /\ running = NoCall
  /\ IF Usable("countries")
     THEN \E rows \in OrderedByText(countries, 2) :
            ret' = [op |-> "get_countries",
                    df |-> [columns |-> CountryColumns, rows |-> rows],
                    conn |-> ExitContext(Connect)]
     ELSE ret' = [op |-> "get_countries", df |-> EmptyDataFrame,
                  conn |-> ExitContext(Connect)]
  /\ UNCHANGED <<trade_data, countries, hs_codes, inserted, written,
                 schema, store_ok, now, requests_made, loop, issued,
                 sqlite_sequence, running>>

\* SELECT * FROM hs_codes ORDER BY code
GetHsCodes ==
  /\ ret = Idle
  /\ running = NoCall
  /\ IF Usable("hs_codes")
     THEN \E rows \in OrderedByText(hs_codes, 1) :
            ret' = [op |-> "get_hs_codes",
                    df |-> [columns |-> HsColumns, rows |-> rows],
                    conn |-> ExitContext(Connect)]
     ELSE ret' = [op |-> "get_hs_codes", df |-> EmptyDataFrame,
                  conn |-> ExitContext(Connect)]
  /\ UNCHANGED <<trade_data, countries, hs_codes, inserted, written,
                 schema, store_ok, now, requests_made, loop, issued,
                 sqlite_sequence, running>>

\* The caller takes the returned value (or the raised error).
Return ==
  /\ ret # Idle
  /\ ret' = Idle
  /\ UNCHANGED <<trade_data, countries, hs_codes, inserted, written,
               schema, store_ok, now, requests_made, loop, issued,
               sqlite_sequence, running>>

\* The fact table and its queries.
NextStore ==
  \/ InsertTradeData
  \/ GetTradeData
  \/ GetTopTraders
  \/ GetTradeTrends
  \/ Return

SpecStore == Init /\ [][NextStore]_vars

\* get_summary_stats statement by statement, next to a connection that
\* inserts.
NextStats ==
  \/ InsertTradeData
  \/ GetSummaryStats
  \/ Return

SpecStats == Init /\ [][NextStats]_vars

\* init_database statement by statement, on a file that holds rows, that
\* may become unusable and that may be deleted.
NextSchema ==
  \/ InitDatabase
  \/ InsertTradeData
  \/ StoreFails
  \/ StoreRecovers
  \/ FileRemoved
  \/ Return

SpecSchema == Init /\ [][NextSchema]_vars

\* The fact table over the days: rows are inserted, age and are deleted.
NextRetention ==
  \/ DaysPass
  \/ InsertTradeData
  \/ CleanupOldData
  \/ Return

SpecRetention == Init /\ [][NextRetention]_vars

NextRef == InsertCountries \/ InsertHsCodes \/ GetCountries \/ GetHsCodes \/ Return

SpecRef == Init /\ [][NextRef]_vars

(***************************************************************************)
(* ComtradeDataExtractor: the rate limiter and the external request.       *)
(***************************************************************************)
Window == 3600
SleepSeconds == 3600

\* timedelta.seconds: the seconds field of the normalised difference, which
\* leaves out the days (of 86400 seconds each).
Seconds(delta) == delta % 86400

\* [t for t in requests_made if (now - t).seconds < 3600]
Prune(stamps, at) == SelectSeq(stamps, LAMBDA t : Seconds(at - t) < Window)

LimitExceeded(n) == n > max_requests_per_hour

\* len(self.requests_made) >= self.max_requests_per_hour
LimitReached(n) == n >= max_requests_per_hour

\* check_rate_limit at time at: prune, and when the ceiling is reached
\* sleep an hour and clear the list.
check_rate_limit(stamps, at) ==
  LET kept == Prune(stamps, at) IN
    IF LimitReached(Len(kept))
    THEN [requests_made |-> << >>, now |-> at + SleepSeconds, slept |-> TRUE]
    ELSE [requests_made |-> kept, now |-> at, slept |-> FALSE]

\* What session.get does: raise RequestException, or return a response with
\* a status code and a JSON body.
RequestException == [kind |-> "exception"]
HttpResponse(status_code, json) ==
  [kind |-> "response", status_code |-> status_code, json |-> json]

\* make_request at time at: the limiter, then the GET; the time of the GET
\* is recorded when session.get returns, and the JSON body is returned for
\* status 200, None otherwise.
make_request(stamps, at, outcome) ==
  LET limiter == check_rate_limit(stamps, at) IN
    [now |-> limiter.now,
     slept |-> limiter.slept,
     get_time |-> limiter.now,
     requests_made |-> IF outcome.kind = "exception"
                       THEN limiter.requests_made
                       ELSE Append(limiter.requests_made, limiter.now),
     response |-> IF outcome.kind = "response" /\ outcome.status_code = 200
                  THEN outcome.json ELSE None]

\* session.get is called at time at: the history keeps the calls of the
\* hour that ends with this one, the latest MaxHistory of them.
Issue(history, at) ==
  LET recent == SelectSeq(history, LAMBDA t : at - t < Window) \o <<at>> IN
    IF Len(recent) <= MaxHistory THEN recent
    ELSE SubSeq(recent, Len(recent) - MaxHistory + 1, Len(recent))

\* Time passes between two calls: half an hour, or a day.
Tick ==
  /\ ret = Idle
  /\ \E d \in {1800, 86400} :
       /\ now + d <= MaxTime
       /\ now' = now + d
  /\ UNCHANGED <<trade_data, countries, hs_codes, ret, inserted, written,
                 schema, store_ok, requests_made, loop, issued,
                 sqlite_sequence, running>>

CheckRateLimit ==
  /\ ret = Idle
  /\ now + SleepSeconds <= MaxTime
  /\ LET limiter == check_rate_limit(requests_made, now) IN
       /\ requests_made' = limiter.requests_made
       /\ now' = limiter.now
       /\ ret' = [op |-> "check_rate_limit", start |-> now,
                  before |-> requests_made, slept |-> limiter.slept]
  /\ UNCHANGED <<trade_data, countries, hs_codes, inserted, written,
                 schema, store_ok, loop, issued,
                 sqlite_sequence, running>>

MakeRequest ==
  /\ ret = Idle
  /\ now + SleepSeconds <= MaxTime
  /\ \E outcome \in {RequestException, HttpResponse(500, None),
                     HttpResponse(200, PyDict(<< >>))} :
       LET request == make_request(requests_made, now, outcome) IN
         /\ requests_made' = request.requests_made
         /\ now' = request.now
         /\ ret' = [op |-> "make_request", start |-> now,
                    before |-> requests_made, outcome |-> outcome,
                    slept |-> request.slept, get_time |-> request.get_time,
                    response |-> request.response]
         /\ issued' = Issue(issued, request.get_time)
  /\ UNCHANGED <<trade_data, countries, hs_codes, inserted, written,
                 schema, store_ok, loop,
                 sqlite_sequence, running>>

NextLimiter == Tick \/ CheckRateLimit \/ MakeRequest \/ Return

SpecLimiter == Init /\ [][NextLimiter]_vars

(***************************************************************************)
(* ComtradeDataExtractor.extract_trade_data_free_api: mapping the records  *)
(* of a response to trade records.  A JSON object is a dict, a JSON array  *)
(* a list, JSON null is None.                                              *)
(***************************************************************************)
IsDigit(c) == c \in {"0", "1", "2", "3", "4", "5", "6", "7", "8", "9"}

RECURSIVE ParseDigits(_)
ParseDigits(s) ==
  IF s = << >> THEN 0
  ELSE 10 * ParseDigits(SubSeq(s, 1, Len(s) - 1))
       + (CHOOSE d \in 0..9 : Digit(d) = s[Len(s)])

Raised(error) == [ok |-> FALSE, error |-> error]
Value(v) == [ok |-> TRUE, value |-> v]

\* float(v): a number converts, a text converts when it spells a number
\* (here: a run of digits) and raises ValueError otherwise, any other
\* value raises TypeError.
ToFloat(v) ==
  CASE v.type \in {"int", "float"} -> Value(PyFloat(v.val))
    [] v.type = "str" ->
         IF v.val # << >> /\ \A i \in 1..Len(v.val) : IsDigit(v.val[i])
         THEN Value(PyFloat(ParseDigits(v.val)))
         ELSE Raised("ValueError")
    [] OTHER -> Raised("TypeError")

\* record.get(key, default) on a dict
Get(record, key, default) ==
  IF key \in DOMAIN record.items THEN record.items[key] ELSE default

\* float(record.get(key, 0)) if record.get(key) else None
NumberField(record, key) ==
  IF Truthy(Get(record, key, None))
  THEN ToFloat(Get(record, key, PyInt(0)))
  ELSE Value(None)

\* The body of the for loop: the 12-tuple of one record, or the exception
\* raised while building it (record.get on a value that is not a dict
\* raises AttributeError).
MapRecord(record, reporter, year, hs_code) ==
  IF record.type # "dict" THEN Raised("AttributeError")
  ELSE LET trade_value == NumberField(record, "tradeValue")
           quantity == NumberField(record, "qty")
       IN IF ~trade_value.ok THEN trade_value
          ELSE IF ~quantity.ok THEN quantity
          ELSE Value(<<Get(record, "period", PyInt(year)),
                       None,
                       Get(record, "reporterCode", reporter),
                       Get(record, "reporterDesc", Empty),
                       Get(record, "partnerCode", Empty),
                       Get(record, "partnerDesc", Empty),
                       Get(record, "flowDesc", Import),
                       Get(record, "cmdCode", hs_code),
                       Get(record, "cmdDesc", Empty),
                       trade_value.value,
                       quantity.value,
                       Get(record, "qtyUnitAbbr", Empty)>>)

\* The for loop over response['data']: ValueError and TypeError skip the
\* record, any other exception leaves the loop.
RECURSIVE MapRecords(_, _, _, _, _)
MapRecords(data, data_records, reporter, year, hs_code) ==
  IF data = << >> THEN [data_records |-> data_records, error |-> "none"]
  ELSE LET mapped == MapRecord(Head(data), reporter, year, hs_code) IN
         IF mapped.ok
         THEN MapRecords(Tail(data), Append(data_records, mapped.value),
                         reporter, year, hs_code)
         ELSE IF mapped.error \in {"ValueError", "TypeError"}
         THEN MapRecords(Tail(data), data_records, reporter, year, hs_code)
         ELSE [data_records |-> data_records, error |-> mapped.error]

\* "if response and 'data' in response"
HasData(response) ==
  /\ Truthy(response)
  /\ response.type = "dict"
  /\ "data" \in DOMAIN response.items

\* extract_trade_data_free_api on the store rows, at the time at: what it
\* leaves in the store and in the limiter, the count it returns, and the
\* exception its outer handler swallowed ("none": none).
extract_trade_data_free_api(rows, seq, stamps, at, reporter, year, hs_code, outcome) ==
  LET request == make_request(stamps, at, outcome)
      base == [trade_data |-> rows, requests_made |-> request.requests_made,
               now |-> request.now, get_time |-> request.get_time,
               slept |-> request.slept, records |-> 0, error |-> "none"]
  IN IF ~HasData(request.response) THEN base
     ELSE LET mapped == MapRecords(request.response.items["data"].val, << >>,
                                   reporter, year, hs_code)
              txn == Execute(ExecuteManyTrade(rows, mapped.data_records, seq,
                                              request.now), rows, "trade_data")
          IN IF mapped.error # "none" THEN [base EXCEPT !.error = mapped.error]
             ELSE IF mapped.data_records = << >> THEN base
             ELSE IF txn.error
             THEN [base EXCEPT !.error = "sqlite3.Error"]
             ELSE [base EXCEPT !.trade_data = ConnectionExit(rows, txn),
                               !.records = Len(mapped.data_records)]

\* Records of a response.
FullRecord ==
  PyDict([period |-> PyInt(2022), reporterCode |-> USA, reporterDesc |-> NameUSA,
          partnerCode |-> CHN, partnerDesc |-> NameChina, flowDesc |-> Export,
          cmdCode |-> HsTOTAL, cmdDesc |-> Empty, tradeValue |-> PyInt(100),
          qty |-> PyFloat(5), qtyUnitAbbr |-> KG])

\* A record with a numeric text as its only field.
SparseRecord == PyDict([tradeValue |-> PyStr(<<"2", "5", "0">>)])

ZeroValueRecord == PyDict([FullRecord.items EXCEPT !.tradeValue = PyInt(0)])

\* float('abc') raises ValueError.
NonNumericRecord ==
  PyDict([FullRecord.items EXCEPT !.tradeValue = PyStr(<<"a", "b", "c">>)])

\* float([5]) raises TypeError.
ListQuantityRecord ==
  PyDict([FullRecord.items EXCEPT !.qty = PyList(<<PyInt(5)>>)])

\* A text field that holds a JSON array: the tuple is built, the INSERT
\* cannot bind it.
ListNameRecord ==
  PyDict([FullRecord.items EXCEPT !.reporterDesc = PyList(<<NameUSA>>)])

\* The elements of a data array; None is a JSON null in the array.
ApiRecords ==
  {FullRecord, SparseRecord, ZeroValueRecord, NonNumericRecord,
   ListQuantityRecord, ListNameRecord, None}

DataBody(data) == PyDict([data |-> PyList(data)])

\* The arguments are the defaults (USA, 2022, 'all') or CHN 2023 TOTAL; the
\* GET raises, answers 500, answers 200 without data, or answers 200 with a
\* data array.
ExtractTradeDataFreeApi ==
  /\ ret = Idle
  /\ now + SleepSeconds <= MaxExtractTime
  /\ \E args \in
          { [reporter |-> USA, year |-> 2022, hs_code |-> PyStr(<<"a", "l", "l">>)],
            [reporter |-> CHN, year |-> 2023, hs_code |-> HsTOTAL] },
        outcome \in
          {RequestException, HttpResponse(500, None),
           HttpResponse(200, PyDict(<< >>))}
          \cup { HttpResponse(200, DataBody(data)) :
                   data \in Batches(ApiRecords, MaxData) } :
       /\ Len(trade_data)
            + (IF outcome.kind = "response" /\ outcome.status_code = 200
                  /\ HasData(outcome.json)
               THEN Len(outcome.json.items["data"].val) ELSE 0) <= MaxRows
       /\ LET call == extract_trade_data_free_api(trade_data, sqlite_sequence,
                         requests_made, now,
                         args.reporter, args.year, args.hs_code, outcome)
          IN /\ trade_data' = call.trade_data
             /\ sqlite_sequence' = AutoIncrement(trade_data', sqlite_sequence)
             /\ requests_made' = call.requests_made
             /\ now' = call.now
             /\ inserted' = inserted + call.records
             /\ ret' = [op |-> "extract_trade_data_free_api", args |-> args,
                        outcome |-> outcome, before |-> trade_data,
                        records |-> call.records, raised |-> FALSE,
                        swallowed |-> call.error]
             /\ issued' = Issue(issued, call.get_time)
  /\ UNCHANGED <<countries, hs_codes, written, schema, store_ok, loop,
                 running>>

NextExtract == ExtractTradeDataFreeApi \/ Return

SpecExtract == Init /\ [][NextExtract]_vars

(***************************************************************************)
(* ComtradeDataExtractor: reference data, sample data and the extraction   *)
(* loops.                                                                  *)
(***************************************************************************)
\* countries_data of get_country_codes
CountriesData ==
  << <<PyStr(<<"U", "S", "A">>),
       PyStr(<<"U", "n", "i", "t", "e", "d", " ", "S", "t", "a", "t", "e", "s", " ", "o", "f", " ", "A", "m", "e", "r", "i", "c", "a">>),
       PyStr(<<"A", "m", "e", "r", "i", "c", "a", "s">>)>>,
     <<PyStr(<<"C", "H", "N">>),
       PyStr(<<"C", "h", "i", "n", "a">>),
       PyStr(<<"A", "s", "i", "a">>)>>,
     <<PyStr(<<"D", "E", "U">>),
       PyStr(<<"G", "e", "r", "m", "a", "n", "y">>),
       PyStr(<<"E", "u", "r", "o", "p", "e">>)>>,
     <<PyStr(<<"J", "P", "N">>),
       PyStr(<<"J", "a", "p", "a", "n">>),
       PyStr(<<"A", "s", "i", "a">>)>>,
     <<PyStr(<<"G", "B", "R">>),
       PyStr(<<"U", "n", "i", "t", "e", "d", " ", "K", "i", "n", "g", "d", "o", "m">>),
       PyStr(<<"E", "u", "r", "o", "p", "e">>)>>,
     <<PyStr(<<"F", "R", "A">>),
       PyStr(<<"F", "r", "a", "n", "c", "e">>),
       PyStr(<<"E", "u", "r", "o", "p", "e">>)>>,
     <<PyStr(<<"I", "N", "D">>),
       PyStr(<<"I", "n", "d", "i", "a">>),
       PyStr(<<"A", "s", "i", "a">>)>>,
     <<PyStr(<<"I", "T", "A">>),
       PyStr(<<"I", "t", "a", "l", "y">>),
       PyStr(<<"E", "u", "r", "o", "p", "e">>)>>,
     <<PyStr(<<"B", "R", "A">>),
       PyStr(<<"B", "r", "a", "z", "i", "l">>),
       PyStr(<<"A", "m", "e", "r", "i", "c", "a", "s">>)>>,
     <<PyStr(<<"C", "A", "N">>),
       PyStr(<<"C", "a", "n", "a", "d", "a">>),
       PyStr(<<"A", "m", "e", "r", "i", "c", "a", "s">>)>>,
     <<PyStr(<<"R", "U", "S">>),
       PyStr(<<"R", "u", "s", "s", "i", "a", "n", " ", "F", "e", "d", "e", "r", "a", "t", "i", "o", "n">>),
       PyStr(<<"E", "u", "r", "o", "p", "e">>)>>,
     <<PyStr(<<"K", "O", "R">>),
       PyStr(<<"R", "e", "p", "u", "b", "l", "i", "c", " ", "o", "f", " ", "K", "o", "r", "e", "a">>),
       PyStr(<<"A", "s", "i", "a">>)>>,
     <<PyStr(<<"E", "S", "P">>),
       PyStr(<<"S", "p", "a", "i", "n">>),
       PyStr(<<"E", "u", "r", "o", "p", "e">>)>>,
     <<PyStr(<<"A", "U", "S">>),
       PyStr(<<"A", "u", "s", "t", "r", "a", "l", "i", "a">>),
       PyStr(<<"O", "c", "e", "a", "n", "i", "a">>)>>,
     <<PyStr(<<"M", "E", "X">>),
       PyStr(<<"M", "e", "x", "i", "c", "o">>),
       PyStr(<<"A", "m", "e", "r", "i", "c", "a", "s">>)>>,
     <<PyStr(<<"I", "D", "N">>),
       PyStr(<<"I", "n", "d", "o", "n", "e", "s", "i", "a">>),
       PyStr(<<"A", "s", "i", "a">>)>>,
     <<PyStr(<<"N", "L", "D">>),
       PyStr(<<"N", "e", "t", "h", "e", "r", "l", "a", "n", "d", "s">>),
       PyStr(<<"E", "u", "r", "o", "p", "e">>)>>,
     <<PyStr(<<"S", "A", "U">>),
       PyStr(<<"S", "a", "u", "d", "i", " ", "A", "r", "a", "b", "i", "a">>),
       PyStr(<<"A", "s", "i", "a">>)>>,
     <<PyStr(<<"T", "U", "R">>),
       PyStr(<<"T", "u", "r", "k", "e", "y">>),
       PyStr(<<"A", "s", "i", "a">>)>>,
     <<PyStr(<<"C", "H", "E">>),
       PyStr(<<"S", "w", "i", "t", "z", "e", "r", "l", "a", "n", "d">>),
       PyStr(<<"E", "u", "r", "o", "p", "e">>)>> >>

\* HS_CATEGORIES of the configuration, in its order
HS_CATEGORIES ==
  << <<PyStr(<<"0", "1">>),
       PyStr(<<"L", "i", "v", "e", " ", "a", "n", "i", "m", "a", "l", "s">>)>>,
     <<PyStr(<<"0", "2">>),
       PyStr(<<"M", "e", "a", "t", " ", "a", "n", "d", " ", "e", "d", "i", "b", "l", "e", " ", "m", "e", "a", "t", " ", "o", "f", "f", "a", "l">>)>>,
     <<PyStr(<<"0", "3">>),
       PyStr(<<"F", "i", "s", "h", " ", "a", "n", "d", " ", "c", "r", "u", "s", "t", "a", "c", "e", "a", "n", "s">>)>>,
     <<PyStr(<<"0", "4">>),
       PyStr(<<"D", "a", "i", "r", "y", " ", "p", "r", "o", "d", "u", "c", "e">>)>>,
     <<PyStr(<<"0", "5">>),
       PyStr(<<"P", "r", "o", "d", "u", "c", "t", "s", " ", "o", "f", " ", "a", "n", "i", "m", "a", "l", " ", "o", "r", "i", "g", "i", "n">>)>>,
     <<PyStr(<<"0", "6">>),
       PyStr(<<"L", "i", "v", "e", " ", "t", "r", "e", "e", "s", " ", "a", "n", "d", " ", "o", "t", "h", "e", "r", " ", "p", "l", "a", "n", "t", "s">>)>>,
     <<PyStr(<<"0", "7">>),
       PyStr(<<"E", "d", "i", "b", "l", "e", " ", "v", "e", "g", "e", "t", "a", "b", "l", "e", "s">>)>>,
     <<PyStr(<<"0", "8">>),
       PyStr(<<"E", "d", "i", "b", "l", "e", " ", "f", "r", "u", "i", "t", " ", "a", "n", "d", " ", "n", "u", "t", "s">>)>>,
     <<PyStr(<<"0", "9">>),
       PyStr(<<"C", "o", "f", "f", "e", "e", ",", " ", "t", "e", "a", ",", " ", "m", "a", "t", "e", " ", "a", "n", "d", " ", "s", "p", "i", "c", "e", "s">>)>>,
     <<PyStr(<<"1", "0">>),
       PyStr(<<"C", "e", "r", "e", "a", "l", "s">>)>>,
     <<PyStr(<<"2", "7">>),
       PyStr(<<"M", "i", "n", "e", "r", "a", "l", " ", "f", "u", "e", "l", "s", ",", " ", "o", "i", "l", "s", " ", "a", "n", "d", " ", "w", "a", "x", "e", "s">>)>>,
     <<PyStr(<<"8", "4">>),
       PyStr(<<"N", "u", "c", "l", "e", "a", "r", " ", "r", "e", "a", "c", "t", "o", "r", "s", ",", " ", "b", "o", "i", "l", "e", "r", "s", ",", " ", "m", "a", "c", "h", "i", "n", "e", "r", "y">>)>>,
     <<PyStr(<<"8", "5">>),
       PyStr(<<"E", "l", "e", "c", "t", "r", "i", "c", "a", "l", " ", "m", "a", "c", "h", "i", "n", "e", "r", "y", " ", "a", "n", "d", " ", "e", "q", "u", "i", "p", "m", "e", "n", "t">>)>>,
     <<PyStr(<<"8", "7">>),
       PyStr(<<"V", "e", "h", "i", "c", "l", "e", "s", " ", "o", "t", "h", "e", "r", " ", "t", "h", "a", "n", " ", "r", "a", "i", "l", "w", "a", "y">>)>> >>

\* [(code, description, 'Various') for code, description in HS_CATEGORIES.items()]
HsCodesData ==
  [i \in 1..Len(HS_CATEGORIES) |->
     <<HS_CATEGORIES[i][1], HS_CATEGORIES[i][2], Various>>]

DEFAULT_COUNTRIES ==
  <<PyStr(<<"U", "S", "A">>),
    PyStr(<<"C", "H", "N">>),
    PyStr(<<"D", "E", "U">>),
    PyStr(<<"J", "P", "N">>),
    PyStr(<<"G", "B", "R">>),
    PyStr(<<"F", "R", "A">>),
    PyStr(<<"I", "N", "D">>),
    PyStr(<<"I", "T", "A">>),
    PyStr(<<"B", "R", "A">>),
    PyStr(<<"C", "A", "N">>)>>

\* insert_countries / insert_hs_codes called inside try/except: an error
\* is logged and the table stays as it was.
UpdateReference(rows, data_list, columns, table) ==
  ConnectionExit(rows, Execute(ExecuteManyRef(rows, data_list, columns), rows,
                               table))

(***************************************************************************)
(* The reference data of the extractor: its constructor, and the two       *)
(* refresh methods, which run_full_extraction calls and which may be       *)
(* called on their own.                                                    *)
(***************************************************************************)
\* ComtradeDataExtractor.__init__: a new DatabaseManager, whose constructor
\* runs init_database statement by statement, then a new session and an
\* empty request history.  No row is written to any table.  Each step is
\* the next CREATE statement; the first one begins the constructor.
NewExtractor ==
  /\ ret = Idle
  /\ loop.op = "none"
  /\ running.op \in {"none", "ComtradeDataExtractor"}
  /\ LET this == IF running = NoCall
                 THEN [op |-> "ComtradeDataExtractor", pc |-> 1]
                 ELSE running
         txn == ExecuteCreate(this.pc)
         ended == txn.error \/ this.pc = Len(DDL)
     IN /\ schema' = txn.schema
        /\ running' = IF ended THEN NoCall ELSE [this EXCEPT !.pc = @ + 1]
        /\ ret' = IF ended
                  THEN [op |-> "ComtradeDataExtractor", raised |-> txn.error]
                  ELSE ret
        \* self.requests_made = [] after the DatabaseManager was built
        /\ requests_made' = IF ended /\ ~txn.error THEN << >> ELSE requests_made
        /\ issued' = IF ended /\ ~txn.error THEN << >> ELSE issued
  /\ UNCHANGED <<trade_data, countries, hs_codes, inserted, written,
                 store_ok, now, loop, sqlite_sequence>>

\* ComtradeDataExtractor.get_country_codes: insert_countries(countries_data)
get_country_codes ==
  /\ ret = Idle
  /\ loop.op = "none"
  \* a method of the extractor: its constructor has returned
  /\ running.op # "ComtradeDataExtractor"
  /\ countries' = UpdateReference(countries, CountriesData, CountryColumns,
                                "countries")
  /\ written' = IF Usable("countries")
                THEN [written EXCEPT !.countries = LatestWrites(@, CountriesData)]
                ELSE written
  /\ ret' = [op |-> "get_country_codes", before |-> countries]
  /\ UNCHANGED <<trade_data, hs_codes, inserted, schema, store_ok, now,
                 requests_made, loop, issued,
                 sqlite_sequence, running>>

\* ComtradeDataExtractor.get_hs_codes: insert_hs_codes(hs_codes_data)
get_hs_codes ==
  /\ ret = Idle
  /\ loop.op = "none"
  \* a method of the extractor: its constructor has returned
  /\ running.op # "ComtradeDataExtractor"
  /\ hs_codes' = UpdateReference(hs_codes, HsCodesData, HsColumns, "hs_codes")
  /\ written' = IF Usable("hs_codes")
                THEN [written EXCEPT !.hs_codes = LatestWrites(@, HsCodesData)]
                ELSE written
  /\ ret' = [op |-> "get_hs_codes", before |-> hs_codes]
  /\ UNCHANGED <<trade_data, countries, inserted, schema, store_ok, now,
                 requests_made, loop, issued,
                 sqlite_sequence, running>>

(***************************************************************************)
(* ComtradeDataExtractor.generate_sample_data.  The random module is a     *)
(* choice of seed; each draw is a function of the seed and the record.     *)
(***************************************************************************)
SampleSize == 500

\* random.choice over n values / random.randint: draw number salt of record i
Pick(seed, i, salt, n) == ((seed * 31 + i * salt) % n) + 1

\* next((name for code, name, _ in [...] if code == c), c)
SampleName(c) ==
  LET known == { k \in 1..Len(DEFAULT_COUNTRIES) : CountriesData[k][1] = c } IN
    IF known = {} THEN c ELSE CountriesData[CHOOSE k \in known : TRUE][2]

SampleRecord(seed, i) ==
  LET reporter == DEFAULT_COUNTRIES[Pick(seed, i, 3, Len(DEFAULT_COUNTRIES))]
      others == SelectSeq(DEFAULT_COUNTRIES, LAMBDA c : c # reporter)
      partner == others[Pick(seed, i, 5, Len(others))]
      hs == HS_CATEGORIES[Pick(seed, i, 7, Len(HS_CATEGORIES))]
      years == <<2020, 2021, 2022, 2023>>
      trade_flows == <<Import, Export>>
  IN <<PyInt(years[Pick(seed, i, 11, Len(years))]),
       PyInt(Pick(seed, i, 13, 12)),
       reporter,
       SampleName(reporter),
       partner,
       SampleName(partner),
       trade_flows[Pick(seed, i, 17, Len(trade_flows))],
       hs[1],
       hs[2],
       PyFloat(1000000 + Pick(seed, i, 104729, 999000000)),
       PyFloat(1000 + Pick(seed, i, 7919, 99000)),
       KG>>

\* generate_sample_data on the store rows: the rows it leaves and the
\* count it returns (0 when the insert raised).
generate_sample_data(rows, seed, seq, at) ==
  LET sample_data == [i \in 1..SampleSize |-> SampleRecord(seed, i)]
      txn == Execute(ExecuteManyTrade(rows, sample_data, seq, at), rows,
                     "trade_data")
  IN IF txn.error THEN [trade_data |-> rows, records |-> 0]
     ELSE [trade_data |-> ConnectionExit(rows, txn),
           records |-> Len(sample_data)]

(***************************************************************************)
(* ComtradeDataExtractor.run_full_extraction and update_recent_data.  A    *)
(* loop is a sequence of steps: the statements before the loop, one step   *)
(* per (reporter, year) pair, the statements after the loop.               *)
(***************************************************************************)
FallbackThreshold == 100
FullDelay == 2
UpdateDelay == 1

\* for reporter in DEFAULT_COUNTRIES[:3]: for year in [2022, 2023]
FullPairs ==
  [k \in 1..6 |-> [reporter |-> DEFAULT_COUNTRIES[((k - 1) \div 2) + 1],
                   year |-> <<2022, 2023>>[((k - 1) % 2) + 1]]]

\* for year in recent_years: for reporter in DEFAULT_COUNTRIES[:5], with
\* datetime.now().year = 2026 while the model's clock runs
UpdatePairs ==
  LET current_year == 2026
      recent_years == <<current_year - 1, current_year - 2>>
  IN [k \in 1..10 |-> [reporter |-> DEFAULT_COUNTRIES[((k - 1) % 5) + 1],
                       year |-> recent_years[((k - 1) \div 5) + 1]]]

\* A 200 response with n complete records.
Bulk(n) == HttpResponse(200, DataBody([i \in 1..n |-> FullRecord]))

AtMostThreshold(total_records) == total_records <= FallbackThreshold

\* if total_records < 100
BelowThreshold(total_records) == total_records < FallbackThreshold

\* run_full_extraction up to self.get_country_codes(): the countries are
\* written in a transaction of their own.
StartFullExtraction ==
  /\ ret = Idle
  /\ loop.op = "none"
  /\ loop.runs < MaxRuns
  /\ countries' = UpdateReference(countries, CountriesData, CountryColumns,
                                "countries")
  /\ written' = IF Usable("countries")
                THEN [written EXCEPT !.countries = LatestWrites(@, CountriesData)]
                ELSE written
  /\ loop' = [op |-> "run_full_extraction", pc |-> "get_hs_codes",
              runs |-> loop.runs,
              pairs |-> FullPairs, delay |-> FullDelay, i |-> 1,
              total_records |-> 0, attempted |-> 0, before |-> trade_data,
              last |-> [failed |-> FALSE, records |-> 0, before |-> trade_data]]
  /\ UNCHANGED <<trade_data, hs_codes, ret, inserted, schema, store_ok, now,
                 requests_made, issued, sqlite_sequence, running>>

\* self.get_hs_codes() of run_full_extraction: the HS codes are written in
\* the next transaction, and the loop begins.
FullExtractionHsCodes ==
  /\ ret = Idle
  /\ loop.op = "run_full_extraction"
  /\ loop.pc = "get_hs_codes"
  /\ hs_codes' = UpdateReference(hs_codes, HsCodesData, HsColumns, "hs_codes")
  /\ written' = IF Usable("hs_codes")
                THEN [written EXCEPT !.hs_codes = LatestWrites(@, HsCodesData)]
                ELSE written
  /\ loop' = [loop EXCEPT !.pc = "pairs"]
  /\ UNCHANGED <<trade_data, countries, ret, inserted, schema, store_ok, now,
                 requests_made, issued, sqlite_sequence, running>>

\* update_recent_data up to the loop.
StartUpdateRecentData ==
  /\ ret = Idle
  /\ loop.op = "none"
  /\ loop.runs < MaxRuns
  /\ loop' = [op |-> "update_recent_data", pc |-> "pairs", runs |-> loop.runs,
              pairs |-> UpdatePairs, delay |-> UpdateDelay, i |-> 1,
              total_records |-> 0, attempted |-> 0, before |-> trade_data,
              last |-> [failed |-> FALSE, records |-> 0, before |-> trade_data]]
  /\ UNCHANGED <<trade_data, countries, hs_codes, ret, inserted, written,
                 schema, store_ok, now, requests_made, issued,
                 sqlite_sequence, running>>

\* The position after the pair at position i.
NextPairStopping(i, pairs, failed) == IF failed THEN Len(pairs) + 1 ELSE i + 1

NextPair(i, pairs, failed) == i + 1

\* One pass of the loop body: the extraction of the pair, the addition to
\* total_records and the sleep.
ExtractPair ==
  /\ ret = Idle
  /\ loop.op # "none"
  /\ loop.pc = "pairs"
  /\ loop.i <= Len(loop.pairs)
  \* what the GET of one pair may give in each loop
  /\ \E outcome \in {RequestException, HttpResponse(500, None)}
                     \cup (IF loop.op = "run_full_extraction"
                           THEN {Bulk(BulkSize - 1), Bulk(BulkSize)}
                           ELSE {Bulk(1)}) :
       LET pair == loop.pairs[loop.i]
           call == extract_trade_data_free_api(trade_data, sqlite_sequence,
                     requests_made, now,
                     pair.reporter, pair.year, HsTOTAL, outcome)
           \* the GET failed: an exception or a status other than 200
           failed == outcome.kind = "exception" \/ outcome.status_code # 200
       IN /\ trade_data' = call.trade_data
          /\ sqlite_sequence' = AutoIncrement(trade_data', sqlite_sequence)
          /\ requests_made' = call.requests_made
          /\ now' = call.now + loop.delay
          /\ inserted' = inserted + call.records
          /\ loop' = [loop EXCEPT
                        !.i = NextPair(@, loop.pairs, failed),
                        !.total_records = @ + call.records,
                        !.attempted = @ + 1,
                        !.last = [failed |-> failed,
                                  records |-> call.records,
                                  before |-> trade_data]]
          /\ issued' = Issue(issued, call.get_time)
  /\ UNCHANGED <<countries, hs_codes, ret, written, schema, store_ok,
                 running>>

\* run_full_extraction after the loop: the fallback, the summary, the
\* returned total.
FinishFullExtraction ==
  /\ ret = Idle
  /\ loop.op = "run_full_extraction"
  /\ loop.pc = "pairs"
  /\ loop.i > Len(loop.pairs)
  /\ IF BelowThreshold(loop.total_records)
     THEN \E seed \in 1..MaxSeeds :
            LET sample == generate_sample_data(trade_data, seed,
                                               sqlite_sequence, now) IN
              /\ trade_data' = sample.trade_data
              /\ sqlite_sequence' = AutoIncrement(trade_data', sqlite_sequence)
              /\ inserted' = inserted + sample.records
              /\ ret' = [op |-> "run_full_extraction",
                         total_records |-> loop.total_records + sample.records,
                         real_records |-> loop.total_records,
                         sample_calls |-> 1,
                         sample_records |-> sample.records,
                         attempted |-> loop.attempted,
                         before |-> loop.before]
     ELSE /\ ret' = [op |-> "run_full_extraction",
                     total_records |-> loop.total_records,
                     real_records |-> loop.total_records,
                     sample_calls |-> 0,
                     sample_records |-> 0,
                     attempted |-> loop.attempted,
                     before |-> loop.before]
          /\ UNCHANGED <<trade_data, inserted, sqlite_sequence>>
  /\ loop' = NoLoop(loop.runs + 1)
  /\ UNCHANGED <<countries, hs_codes, written, schema, store_ok, now,
                 requests_made, issued, running>>

\* update_recent_data after the loop.
FinishUpdateRecentData ==
  /\ ret = Idle
  /\ loop.op = "update_recent_data"
  /\ loop.i > Len(loop.pairs)
  /\ ret' = [op |-> "update_recent_data",
             total_records |-> loop.total_records,
             attempted |-> loop.attempted,
             before |-> loop.before]
  /\ loop' = NoLoop(loop.runs + 1)
  /\ UNCHANGED <<trade_data, countries, hs_codes, inserted, written, schema,
                 store_ok, now, requests_made, issued,
                 sqlite_sequence, running>>

\* generate_sample_data called on its own (option 4 of main): it returns
\* the number of rows it inserted, 0 when the insert raised.
GenerateSampleData ==
  /\ ret = Idle
  /\ loop.op = "none"
  /\ loop.runs < MaxRuns
  /\ \E seed \in 1..MaxSeeds :
       LET sample == generate_sample_data(trade_data, seed, sqlite_sequence,
                                          now) IN
         /\ trade_data' = sample.trade_data
         /\ sqlite_sequence' = AutoIncrement(trade_data', sqlite_sequence)
         /\ inserted' = inserted + sample.records
         /\ ret' = [op |-> "generate_sample_data", seed |-> seed,
                    records |-> sample.records, before |-> trade_data]
  /\ loop' = NoLoop(loop.runs + 1)
  /\ UNCHANGED <<countries, hs_codes, written, schema, store_ok, now,
                 requests_made, issued, running>>

NextLoop ==
  \/ StartFullExtraction
  \/ FullExtractionHsCodes
  \/ GenerateSampleData
  \/ StartUpdateRecentData
  \/ ExtractPair
  \/ FinishFullExtraction
  \/ FinishUpdateRecentData
  \/ Return

SpecLoop == Init /\ [][NextLoop]_vars

\* The store operations on a database that may become unusable.
NextFaulty ==
  \/ StoreFails
  \/ StoreRecovers
  \/ InsertTradeData
  \/ GetTradeData
  \/ GetCountries
  \/ GetHsCodes
  \/ GetSummaryStats
  \/ GetTopTraders
  \/ GetTradeTrends
  \/ Return

SpecFaulty == Init /\ [][NextFaulty]_vars

\* The extractor's reference data next to direct writes of the countries.
NextLifecycle ==
  \/ NewExtractor
  \/ InsertCountries
  \/ get_country_codes
  \/ get_hs_codes
  \/ Return

SpecLifecycle == Init /\ [][NextLifecycle]_vars

Next ==
  \/ NextStore \/ NextStats \/ NextSchema \/ NextRetention \/ NextRef
  \/ NextFaulty \/ NextLimiter \/ NextExtract \/ NextLoop \/ NextLifecycle

Spec == Init /\ [][Next]_vars

(***************************************************************************)
(* Properties.                                                             *)
(***************************************************************************)
RecognisedKeys == {"year", "reporter_code", "partner_code", "trade_flow", "hs_code"}

\* The recognised keys a filters argument supplies with a non-empty value.
NonEmptyKeys(filters) ==
  IF filters = None THEN {}
  ELSE { k \in DOMAIN filters.items \cap RecognisedKeys : Truthy(filters.items[k]) }

\* One fixed filter dictionary for each set of keys.
Representative(keys) ==
  PyDict([k \in keys |->
            CASE k = "year" -> PyInt(2023)
              [] k = "reporter_code" -> CHN
              [] k = "partner_code" -> CHN
              [] k = "trade_flow" -> Import
              [] k = "hs_code" -> Hs84])

BoundValues(filters) ==
  LET keys == SelectSeq(FilterKeys, LAMBDA k : k \in NonEmptyKeys(filters))
  IN [i \in 1..Len(keys) |->
        IF keys[i] = "hs_code"
        THEN PyStr(filters.items["hs_code"].val \o <<"%">>)
        ELSE filters.items[keys[i]]]

\* C1: get_trade_data never places a filter value in the query text: the
\* text is made of the fixed SQL fragments only, it is the text built for
\* any other filters supplying the same set of non-empty recognised keys,
\* and the values are exactly the bound parameters, hs_code as '<value>%'.
C1_ValuesOnlyBound ==
  ret.op = "get_trade_data" =>
    /\ \A i \in 1..Len(ret.query) :
         ret.query[i] \in KnownClauses \cup {SelectTradeData, OrderBy}
    /\ ret.query = BuildQuery(Representative(NonEmptyKeys(ret.filters))).query
    /\ ret.params = BoundValues(ret.filters)

C1_Witness ==
  /\ ret.op = "get_trade_data"
  /\ NonEmptyKeys(ret.filters) = {"year", "hs_code"}
  /\ ret.filters # Representative({"year", "hs_code"})
  /\ ret.params = <<PyInt(2023), PyStr(<<"%", "8", "5", "%">>)>>
  /\ Len(ret.df.rows) > 0

IsMalformed(rec) == Len(rec) # 12

\* C2: insert_trade_data is atomic per batch: the call raises exactly when
\* a record of the batch cannot be inserted, and then trade_data is what it
\* was before the call; otherwise every record of the batch is present
\* after the rows that were there before.
C2_AtomicBatch ==
  ret.op = "insert_trade_data" =>
    /\ ret.raised <=> \E i \in 1..Len(ret.data_list) : IsMalformed(ret.data_list[i])
    /\ ret.raised => trade_data = ret.before
    /\ ~ret.raised =>
         /\ Len(trade_data) = Len(ret.before) + Len(ret.data_list)
         /\ SubSeq(trade_data, 1, Len(ret.before)) = ret.before
         /\ \A i \in 1..Len(ret.data_list) :
              \A c \in 1..12 :
                trade_data[Len(ret.before) + i].row[TradeColumns[c]]
                  = ret.data_list[i][c]

C2_Witness ==
  /\ ret.op = "insert_trade_data"
  /\ ret.raised
  /\ Len(ret.data_list) = 2
  /\ ~IsMalformed(ret.data_list[1])
  /\ IsMalformed(ret.data_list[2])
  /\ Len(ret.before) > 0
  /\ trade_data = ret.before

\* C3: trade records are never deduplicated or replaced: the number of
\* rows of trade_data is the sum of the lengths of the committed batches.
C3_NoDedup == Len(trade_data) = inserted

C3_Witness ==
  /\ ret.op = "insert_trade_data"
  /\ ~ret.raised
  /\ Len(ret.data_list) = 1
  /\ Len(ret.before) = 1
  /\ ret.before[1].row = BindTrade(ret.data_list[1])
  /\ Len(trade_data) = 2
  /\ trade_data[1].row = trade_data[2].row
  /\ trade_data[1].id # trade_data[2].id

RowSet(rows) == { rows[i] : i \in 1..Len(rows) }

OneRowPerCode(rows) ==
  \A i, j \in 1..Len(rows) : rows[i][1] = rows[j][1] => i = j

\* C4: insert_countries and insert_hs_codes upsert by code: each table
\* holds at most one row per code and the row of a code is the latest
\* committed write of that code.
C4_UpsertByCode ==
  /\ OneRowPerCode(countries)
  /\ OneRowPerCode(hs_codes)
  /\ RowSet(countries) = written.countries
  /\ RowSet(hs_codes) = written.hs_codes

C4_Witness ==
  /\ ret.op = "insert_hs_codes"
  /\ ~ret.raised
  /\ ret.before = << <<Hs84, DescMachinery, Various>> >>
  /\ ret.data_list = << <<Hs84, DescBoilers, Various>> >>
  /\ hs_codes = << <<Hs84, DescBoilers, Various>> >>
  /\ countries = << <<CHN, NameChina, Asia>>, <<USA, NameUS, Americas>> >>

Count(seq, x) == Cardinality({ i \in 1..Len(seq) : seq[i] = x })

SameRows(a, b) ==
  /\ Len(a) = Len(b)
  /\ \A i \in 1..Len(a) : Count(a, a[i]) = Count(b, a[i])

\* A filter constrains its field unless it is omitted or null.
Constrains(filters, key) ==
  /\ filters # None
  /\ key \in DOMAIN filters.items
  /\ filters.items[key] # None

SatisfiesEqualityFilters(filters, row) ==
  \A key \in {"year", "reporter_code", "partner_code", "trade_flow"} :
    Constrains(filters, key) => row[key] = filters.items[key]

\* C5: get_trade_data(filters) returns exactly the stored rows that
\* satisfy every supplied equality filter; an omitted or null filter places
\* no constraint (calls without an hs_code filter).
C5_ExactlyMatchingRows ==
  (ret.op = "get_trade_data" /\ ~Constrains(ret.filters, "hs_code")) =>
    SameRows(ret.df.rows,
             SelectSeq(Project(trade_data),
                       LAMBDA row : SatisfiesEqualityFilters(ret.filters, row)))

StartsWith(s, prefix) ==
  Len(prefix) <= Len(s) /\ SubSeq(s, 1, Len(prefix)) = prefix

\* C6: the hs_code filter is a prefix match: with only an hs_code filter
\* p, a stored row is returned if and only if its hs_code starts with p.
C6_PrefixMatch ==
  (/\ ret.op = "get_trade_data"
   /\ ret.filters # None
   /\ DOMAIN ret.filters.items = {"hs_code"}) =>
    SameRows(ret.df.rows,
             SelectSeq(Project(trade_data),
                       LAMBDA row : StartsWith(row.hs_code.val,
                                               ret.filters.items["hs_code"].val)))

\* C7: the rows get_trade_data returns are ordered by year descending
\* and, within one year, by trade_value descending with null values last.
C7_Ordered ==
  ret.op = "get_trade_data" =>
    \A i, j \in 1..Len(ret.df.rows) :
      i < j =>
        LET a == ret.df.rows[i]
            b == ret.df.rows[j]
        IN /\ (a.year # None /\ b.year # None) => a.year.val >= b.year.val
           /\ a.year = b.year =>
                /\ a.trade_value = None => b.trade_value = None
                /\ (a.trade_value # None /\ b.trade_value # None) =>
                     a.trade_value.val >= b.trade_value.val

C7_Witness ==
  /\ ret.op = "get_trade_data"
  /\ Len(ret.df.rows) = 3
  /\ ret.df.rows[1].year = PyInt(2023)
  /\ ret.df.rows[2].year = PyInt(2022)
  /\ ret.df.rows[2].trade_value = PyFloat(100)
  /\ ret.df.rows[3].year = PyInt(2022)
  /\ ret.df.rows[3].trade_value = None
  /\ trade_data[1].row.trade_value = None

Years(rows) == { rows[i].year.val : i \in { k \in 1..Len(rows) : rows[k].year # None } }

\* C8: get_summary_stats returns the year_range "No data" with
\* total_records = 0 when trade_data is empty, and the range
\* "<min year>-<max year>" whenever trade_data holds a row (empty, or not
\* empty, at each of the statements of the call).
C8_SentinelOnlyWhenEmpty ==
  ret.op = "get_summary_stats" =>
    /\ (\A k \in 1..Len(ret.seen) : ret.seen[k] = << >>) =>
         ret.stats.year_range = NoData /\ ret.stats.total_records = 0
    /\ (\A k \in 1..Len(ret.seen) : ret.seen[k] # << >>) =>
         /\ ret.stats.year_range # NoData
         /\ \A lo, hi \in Years(Project(ret.seen[2])) :
              (\A y \in Years(Project(ret.seen[2])) : lo <= y /\ y <= hi) =>
                ret.stats.year_range = PyStr(FormatInt(lo) \o <<"-">> \o FormatInt(hi))

RECURSIVE SumNullAsNothing(_)
SumNullAsNothing(rows) ==
  IF rows = << >> THEN 0
  ELSE (IF Head(rows).trade_value = None THEN 0 ELSE Head(rows).trade_value.val)
       + SumNullAsNothing(Tail(rows))

\* C9: in get_summary_stats total_records counts every row, null
\* trade_value or not, and total_trade_value is the sum of the non-null
\* trade values (0 when there is none), each over the rows the table held
\* when its statement ran.
C9_NullCountedNotSummed ==
  ret.op = "get_summary_stats" =>
    /\ ret.stats.total_records = Len(ret.seen[1])
    /\ ret.stats.total_trade_value = SumNullAsNothing(Project(ret.seen[5]))

C9_Witness ==
  /\ ret.op = "get_summary_stats"
  /\ ret.seen[1] = ret.seen[5]
  /\ ret.stats.total_records = 3
  /\ ret.stats.total_trade_value = 300
  /\ Cardinality({ i \in 1..Len(trade_data) : trade_data[i].row.trade_value = None }) = 2

\* C10: get_top_traders(flow, limit) returns at most limit rows and
\* total_value never increases from one row to the next.
C10_LimitedAndNonIncreasing ==
  ret.op = "get_top_traders" =>
    /\ Len(ret.df.rows) <= ret.limit
    /\ \A i, j \in 1..Len(ret.df.rows) :
         i < j => ret.df.rows[i].total_value.val >= ret.df.rows[j].total_value.val

C10_Witness ==
  /\ ret.op = "get_top_traders"
  /\ ret.trade_flow = Export
  /\ ret.limit = 2
  /\ Len(ret.df.rows) = 2
  /\ ret.df.rows[1].total_value = PyFloat(200)
  /\ ret.df.rows[2].total_value = PyFloat(100)
  /\ Cardinality(TopTraderGroups(TopTraderRows(Project(trade_data), Export))) = 3

ReporterCodes(rows) == { rows[i].reporter_code : i \in 1..Len(rows) }

\* C11: get_top_traders groups by reporter identity: the result holds at
\* most one row per reporter_code, and the total_value of each row is the
\* sum of trade_value over all the rows of one reporter_code with the given
\* flow and a non-null value.
C11_OneRowPerReporter ==
  ret.op = "get_top_traders" =>
    LET rows == TopTraderRows(Project(trade_data), ret.trade_flow) IN
      /\ Len(ret.df.rows) <= Cardinality(ReporterCodes(rows))
      /\ \A i \in 1..Len(ret.df.rows) :
           \E code \in ReporterCodes(rows) :
             ret.df.rows[i].total_value =
               SumOf(SelectSeq(rows, LAMBDA r : r.reporter_code = code),
                     "trade_value")

\* The stored rows a trend query is about: a non-null trade_value and,
\* when a country code is given, that reporter_code.
TrendSource(country_code) ==
  SelectSeq(Project(trade_data), LAMBDA r :
    /\ r.trade_value # None
    /\ country_code \notin {None, Empty} => r.reporter_code = country_code)

\* C12: get_trade_trends(country_code) returns one row per (year,
\* trade_flow) pair that has a non-null trade_value, carrying the sum of
\* those values, over the rows of reporter country_code when a code is given
\* and over all reporters otherwise, ordered by year ascending.
C12_TrendsPerYearAndFlow ==
  ret.op = "get_trade_trends" =>
    LET src == TrendSource(ret.country_code)
        pairs == { <<src[i].year, src[i].trade_flow>> : i \in 1..Len(src) }
        out == ret.df.rows
    IN /\ ret.df.columns = TrendColumns
       /\ Len(out) = Cardinality(pairs)
       /\ \A key \in pairs :
            \E i \in 1..Len(out) :
              /\ <<out[i].year, out[i].trade_flow>> = key
              /\ out[i].total_value.val =
                   SumNullAsNothing(SelectSeq(src, LAMBDA r :
                     <<r.year, r.trade_flow>> = key))
       /\ \A i, j \in 1..Len(out) :
            (i < j /\ out[i].year # None /\ out[j].year # None) =>
              out[i].year.val <= out[j].year.val

C12_Witness ==
  /\ ret.op = "get_trade_trends"
  /\ ret.country_code = USA
  /\ Len(ret.df.rows) = 2
  /\ ret.df.rows[1] = [year |-> PyInt(0), trade_flow |-> Export,
                       total_value |-> PyFloat(100)]
  /\ ret.df.rows[2] = [year |-> PyInt(2022), trade_flow |-> Export,
                       total_value |-> PyFloat(100)]
  /\ Len(trade_data) = 3
  /\ \E i \in 1..3 : /\ trade_data[i].row.reporter_code = CHN
                      /\ trade_data[i].row.trade_value # None

\* The schema init_database builds.
FullSchema ==
  [tables |-> {"trade_data", "countries", "hs_codes"},
   indexes |-> {"idx_year", "idx_reporter", "idx_partner", "idx_hs_code",
                "idx_trade_flow"}]

\* C20: init_database is idempotent: every statement of a call leaves the
\* stored rows as they are and removes no table and no index; on the
\* initialised store it leaves the three tables and the five indexes as
\* they are; the call raises nothing while the database is usable, and
\* when it returns the schema is complete.
C20_InitIdempotent ==
  [][(/\ ret = Idle
      /\ running.op \in {"none", "init_database"}
      /\ (running' # running \/ ret'.op = "init_database")) =>
       /\ UNCHANGED <<trade_data, countries, hs_codes, sqlite_sequence>>
       /\ schema.tables \subseteq schema'.tables
       /\ schema.indexes \subseteq schema'.indexes
       /\ schema = FullSchema => schema' = schema
       /\ ret'.op = "init_database" =>
            /\ ret'.raised => ~store_ok
            /\ ~ret'.raised => schema' = FullSchema]_vars

C20_Witness ==
  /\ ret.op = "init_database"
  /\ ~ret.raised
  /\ ret.before.schema = FullSchema
  /\ Len(trade_data) = 3
  /\ schema = FullSchema

ReadOps == {"get_trade_data", "get_countries", "get_hs_codes",
            "get_summary_stats", "get_top_traders", "get_trade_trends"}

\* What a read returns when its query matches no rows.
NoMatch(op) ==
  CASE op = "get_trade_data" -> [columns |-> TradeColumns, rows |-> << >>]
    [] op = "get_countries" -> [columns |-> CountryColumns, rows |-> << >>]
    [] op = "get_hs_codes" -> [columns |-> HsColumns, rows |-> << >>]
    [] op = "get_top_traders" -> [columns |-> TopTraderColumns, rows |-> << >>]
    [] op = "get_trade_trends" -> [columns |-> TrendColumns, rows |-> << >>]
    [] op = "get_summary_stats" -> SummaryStats(<< >>)

Result(r) == IF r.op = "get_summary_stats" THEN r.stats ELSE r.df

\* C18 as stated: a read that fails returns what the same read returns
\* when no row matches, so the caller cannot tell the two apart.
C18_FailureLooksLikeNoMatch ==
  (ret.op \in ReadOps /\ ~store_ok) => Result(ret) = NoMatch(ret.op)

\* C18: a read that fails returns an empty result instead of raising: a
\* frame with no rows and no columns, and for get_summary_stats a
\* dictionary with no keys.
C18_FailureGivesEmpty ==
  (ret.op \in ReadOps /\ ~store_ok) =>
    IF ret.op = "get_summary_stats"
    THEN DOMAIN ret.stats = {}
    ELSE ret.df.rows = << >> /\ ret.df.columns = << >>

C18_Witness ==
  /\ ret.op = "get_trade_data"
  /\ ret.filters = None
  /\ ~store_ok
  /\ Len(trade_data) = 2
  /\ ret.df.rows = << >>

DatabaseOps == ReadOps \cup {"init_database", "insert_trade_data",
                             "insert_countries", "insert_hs_codes",
                             "cleanup_old_data"}

\* C19: when a DatabaseManager operation has returned or raised, the
\* connection it acquired is closed.
C19_ConnectionReleased ==
  ret.op \in DatabaseOps => ret.conn.closed

\* Elapsed time from the recorded GET t to the time at.
Age(t, at) == at - t

\* The recorded GETs less than an hour old at the time at.
TrailingHour(stamps, at) == SelectSeq(stamps, LAMBDA t : Age(t, at) < 3600)

\* C13: when the recorded requests of the trailing hour have reached
\* max_requests_per_hour, make_request sleeps one hour before it issues the
\* GET, and the window then holds nothing but that GET.
C13_SuspendsAtCeiling ==
  (/\ ret.op = "make_request"
   /\ Len(TrailingHour(ret.before, ret.start)) >= max_requests_per_hour) =>
    /\ ret.slept
    /\ ret.get_time >= ret.start + 3600
    /\ now = ret.get_time
    /\ requests_made = IF ret.outcome = RequestException THEN << >>
                       ELSE <<ret.get_time>>

C13_Witness ==
  /\ ret.op = "make_request"
  /\ ret.start = 1800
  /\ ret.before = <<0, 1800>>
  /\ ret.slept
  /\ ret.get_time = 5400
  /\ ret.outcome = HttpResponse(200, PyDict(<< >>))
  /\ requests_made = <<5400>>

\* C14: after check_rate_limit has run, requests_made holds no request
\* that is an hour old or older, whatever its age, and it holds every
\* younger request unless the limiter slept.
C14_WindowIsTrailingHour ==
  ret.op = "check_rate_limit" =>
    /\ \A i \in 1..Len(requests_made) : Age(requests_made[i], ret.start) < 3600
    /\ ~ret.slept => requests_made = TrailingHour(ret.before, ret.start)

IsDataResponse(outcome) ==
  /\ outcome.kind = "response"
  /\ outcome.status_code = 200
  /\ outcome.json.type = "dict"
  /\ "data" \in DOMAIN outcome.json.items

\* null, a number, or a text that spells a number
NumericOrNull(v) ==
  \/ v.type \in {"NoneType", "int", "float"}
  \/ v.type = "str" /\ v.val # << >> /\ \A i \in 1..Len(v.val) : IsDigit(v.val[i])

\* A well-formed source record: a JSON object whose fields are scalars and
\* whose tradeValue and qty, when present, are numeric or null.
WellFormedRecord(record) ==
  /\ record.type = "dict"
  /\ \A key \in DOMAIN record.items :
       /\ record.items[key].type \in {"NoneType", "int", "float", "str"}
       /\ key \in {"tradeValue", "qty"} => NumericOrNull(record.items[key])

\* C16: whatever records of a response are malformed, and wherever they
\* stand in the data list, extract_trade_data_free_api skips them, appends
\* one row for each well-formed record, in order, and returns their number.
C16_SkipsExactlyMalformed ==
  (ret.op = "extract_trade_data_free_api" /\ IsDataResponse(ret.outcome)) =>
    LET well == SelectSeq(ret.outcome.json.items["data"].val, WellFormedRecord)
    IN /\ ret.records = Len(well)
       /\ Len(trade_data) = Len(ret.before) + Len(well)
       /\ \A i \in 1..Len(well) :
            trade_data[Len(ret.before) + i].row =
              BindTrade(MapRecord(well[i], ret.args.reporter, ret.args.year,
                                  ret.args.hs_code).value)

LoopOps == {"run_full_extraction", "update_recent_data"}

\* C15: in an extraction loop a failed GET (an exception or a status
\* other than 200) makes the extraction of its pair count 0 records and
\* write nothing, and the loop goes on: it returns after an attempt for
\* every pair, six in run_full_extraction and ten in update_recent_data.
C15_FailureIsZeroAndLoopGoesOn ==
  /\ (loop.op \in LoopOps /\ loop.last.failed) =>
       /\ loop.last.records = 0
       /\ trade_data = loop.last.before
  /\ loop.op \in LoopOps => loop.attempted = loop.i - 1
  /\ ret.op = "run_full_extraction" => ret.attempted = 6
  /\ ret.op = "update_recent_data" => ret.attempted = 10

C15_Witness ==
  /\ loop.op = "update_recent_data"
  /\ loop.attempted = 3
  /\ ~loop.last.failed
  /\ loop.last.records = 1
  /\ loop.total_records = 1
  /\ requests_made = <<1, 2>>

\* C17: run_full_extraction calls generate_sample_data, once, exactly
\* when the loop extracted fewer than 100 rows; the store then holds the
\* extracted and the 500 synthetic rows and the returned total is their sum;
\* otherwise the returned total is the number of extracted rows.
C17_FallbackBelowThreshold ==
  ret.op = "run_full_extraction" =>
    /\ ret.sample_calls = IF ret.real_records < 100 THEN 1 ELSE 0
    /\ Len(trade_data) = Len(ret.before) + ret.real_records + ret.sample_records
    /\ ret.total_records = ret.real_records + ret.sample_records
    /\ ret.sample_calls = 1 => (ret.sample_records = 500 /\ trade_data # << >>)
    /\ ret.sample_calls = 0 => ret.sample_records = 0

C17_Witness ==
  /\ ret.op = "run_full_extraction"
  /\ ret.real_records = 99
  /\ ret.sample_calls = 1
  /\ ret.total_records = 599
  /\ Len(trade_data) = 599

\* C21: once the extractor has been constructed the reference tables hold
\* the country and HS code lists, and after a refresh each table holds
\* exactly the refreshed list, with no row from before the refresh.
C21_SeededAndReplacedWholesale ==
  LET Rows(t) == { t[i] : i \in 1..Len(t) } IN
    /\ (ret.op = "ComtradeDataExtractor" /\ ~ret.raised) =>
          /\ Rows(countries) = Rows(CountriesData)
          /\ Rows(hs_codes) = Rows(HsCodesData)
    /\ ret.op = "get_country_codes" => Rows(countries) = Rows(CountriesData)
    /\ ret.op = "get_hs_codes" => Rows(hs_codes) = Rows(HsCodesData)

\* C22: for every source record that extract_trade_data_free_api stores,
\* the stored trade_value (quantity) is NULL exactly when the record has no
\* tradeValue (qty) or a null one, and a tradeValue (qty) that is a number,
\* zero included, is stored as that number.
C22_NullIffAbsent ==
  (/\ ret.op = "extract_trade_data_free_api"
   /\ IsDataResponse(ret.outcome)
   /\ ret.records = Len(ret.outcome.json.items["data"].val)) =>
    \A i \in 1..ret.records :
      LET source == ret.outcome.json.items["data"].val[i].items
          stored == trade_data[Len(ret.before) + i].row
      IN \A field \in {<<"tradeValue", "trade_value">>, <<"qty", "quantity">>} :
           LET absent == \/ field[1] \notin DOMAIN source
                         \/ IsNone(source[field[1]])
           IN /\ IsNone(stored[field[2]]) <=> absent
              /\ (~absent /\ source[field[1]].type \in {"int", "float"}) =>
                    stored[field[2]] = PyFloat(source[field[1]].val)

\* C23: whatever the outcomes of the GETs (200, another status, a network
\* exception), the GETs issued during any hour that ends with a GET number
\* at most max_requests_per_hour.
C23_IssuedWithinCeiling == Len(issued) <= max_requests_per_hour
====
